---- MODULE Spec2Model ----
(***************************************************************************)
(* Model of the orchestration core of voice-browser: the error taxonomy,   *)
(* the merged decision schema built from the action catalogue, and the     *)
(* model invocation layer (BaseAgent.invoke).                              *)
(*                                                                         *)
(* Strings are TLA+ strings; substring search and case folding are         *)
(* computed character by character, as String.prototype.includes and       *)
(* toLowerCase do.                                                         *)
(***************************************************************************)
EXTENDS Integers, Sequences, FiniteSets, TLC

(***************************************************************************)
(* Bounds                                                                   *)
(***************************************************************************)
\* longest action catalogue handed to buildDynamicActionSchema
MaxActions == 2
\* number of invoke calls made on one agent
MaxInvocations == 2

(***************************************************************************)
(* Strings                                                                  *)
(***************************************************************************)
\* String.prototype.includes
Includes(s, p) ==
  \E i \in 1..(Len(s) - Len(p) + 1) : SubSeq(s, i, i + Len(p) - 1) = p

\* first position >= from at which p occurs in s, 0 when there is none
\* (String.prototype.indexOf, 1-based)
IndexOf(s, p, from) ==
  IF \E i \in from..(Len(s) - Len(p) + 1) : SubSeq(s, i, i + Len(p) - 1) = p
    THEN CHOOSE i \in from..(Len(s) - Len(p) + 1) :
           /\ SubSeq(s, i, i + Len(p) - 1) = p
           /\ \A j \in from..(i - 1) : SubSeq(s, j, j + Len(p) - 1) # p
    ELSE 0

UpperChars == <<"A", "B", "C", "D", "E", "F", "G", "H", "I", "J", "K", "L", "M",
                "N", "O", "P", "Q", "R", "S", "T", "U", "V", "W", "X", "Y", "Z">>
LowerChars == <<"a", "b", "c", "d", "e", "f", "g", "h", "i", "j", "k", "l", "m",
                "n", "o", "p", "q", "r", "s", "t", "u", "v", "w", "x", "y", "z">>

LowerChar(c) ==
  IF \E i \in 1..26 : UpperChars[i] = c
    THEN LowerChars[CHOOSE i \in 1..26 : UpperChars[i] = c]
    ELSE c

RECURSIVE toLowerCase(_)
\* String.prototype.toLowerCase
toLowerCase(s) ==
  IF s = "" THEN ""
  ELSE LowerChar(SubSeq(s, 1, 1)) \o toLowerCase(SubSeq(s, 2, Len(s)))

(***************************************************************************)
(* Error taxonomy                                                          *)
(*                                                                         *)
(* A thrown value is a record: isError tells an Error object from any      *)
(* other thrown value (whose string form is kept in message); hasStatus    *)
(* tells whether the object carries a status property.                     *)
(***************************************************************************)
MkError(name, message) ==
  [isError |-> TRUE, name |-> name, message |-> message, hasStatus |-> FALSE, status |-> 0]

MkStatusError(name, message, status) ==
  [isError |-> TRUE, name |-> name, message |-> message, hasStatus |-> TRUE, status |-> status]

\* a thrown value that is not an Error (a string)
MkNonError(text) ==
  [isError |-> FALSE, name |-> "", message |-> text, hasStatus |-> FALSE, status |-> 0]

ChatModelAuthError(message) == MkError("ChatModelAuthError", message)
ChatModelForbiddenError(message) == MkError("ChatModelForbiddenError", message)
ChatModelBadRequestError(message) == MkError("ChatModelBadRequestError", message)
RequestCancelledError(message) == MkError("RequestCancelledError", message)
ExtensionConflictError(message) == MkError("ExtensionConflictError", message)
ResponseParseError(message) == MkError("ResponseParseError", message)

\* isAuthenticationError without the status test
isAuthenticationError_NoStatus(error) ==
  IF ~error.isError THEN FALSE
  ELSE IF error.name = "AuthenticationError" THEN TRUE
  ELSE \/ Includes(toLowerCase(error.message), "authentication")
       \/ Includes(error.message, " 401")
       \/ Includes(toLowerCase(error.message), "api key")

isAuthenticationError(error) ==
  IF ~error.isError THEN FALSE
  ELSE IF error.name = "AuthenticationError" THEN TRUE
  ELSE IF error.hasStatus /\ error.status = 401 THEN TRUE
  ELSE \/ Includes(toLowerCase(error.message), "authentication")
       \/ Includes(error.message, " 401")
       \/ Includes(toLowerCase(error.message), "api key")

isForbiddenError_NoInstanceCheck(error) ==
  IF error.hasStatus /\ error.status = 403 THEN TRUE
  ELSE \/ Includes(error.message, " 403")
       \/ Includes(toLowerCase(error.message), "forbidden")

isForbiddenError(error) ==
  IF ~error.isError THEN FALSE
  ELSE IF error.hasStatus /\ error.status = 403 THEN TRUE
  ELSE \/ Includes(error.message, " 403")
       \/ Includes(toLowerCase(error.message), "forbidden")

isBadRequestError(error) ==
  IF ~error.isError THEN FALSE
  ELSE IF error.name = "BadRequestError" THEN TRUE
  ELSE IF error.hasStatus /\ error.status = 400 THEN TRUE
  ELSE \/ Includes(error.message, " 400")
       \/ Includes(toLowerCase(error.message), "badrequest")
       \/ Includes(error.message, "Invalid parameter")
       \/ /\ Includes(error.message, "response_format")
          /\ Includes(error.message, "json_schema")
          /\ Includes(error.message, "not supported")

\* isAbortedError without the name test
isAbortedError_MessageOnly(error) ==
  IF ~error.isError THEN FALSE
  ELSE Includes(error.message, "Aborted")

isAbortedError(error) ==
  IF ~error.isError THEN FALSE
  ELSE error.name = "AbortError" \/ Includes(error.message, "Aborted")

isExtensionConflictError_ErrorsOnly(error) ==
  /\ error.isError
  /\ Includes(toLowerCase(error.message), "cannot access a chrome-extension")
  /\ Includes(toLowerCase(error.message), "of different extension")

isExtensionConflictError(error) ==
  LET errorMessage == toLowerCase(error.message)
  IN  /\ Includes(errorMessage, "cannot access a chrome-extension")
      /\ Includes(errorMessage, "of different extension")

(***************************************************************************)
(* Decision schema                                                         *)
(*                                                                         *)
(* An action is [name, valid]: valid is the set of input values its own    *)
(* schema accepts.  A JSON value is kept as its literal text ("null",      *)
(* "1", ...).  An object is a function from the keys it has to values; an  *)
(* absent key is a key outside its DOMAIN.  An object schema is a function *)
(* from field names to field schemas.                                      *)
(***************************************************************************)
\* z.object({})
EmptyObjectSchema == [k \in {} |-> [valid |-> {}, nullable |-> FALSE, optional |-> FALSE]]

\* actionSchema.nullable().optional()
NullableOptional(actionSchema) ==
  [valid |-> actionSchema, nullable |-> TRUE, optional |-> TRUE]

\* schema.extend({[name]: field}): an existing field of that name is overwritten
Extend(schema, name, field) ==
  [k \in (DOMAIN schema) \cup {name} |-> IF k = name THEN field ELSE schema[k]]

RECURSIVE BuildSchemaLoop(_, _)
\* the for loop of buildDynamicActionSchema after its first n iterations
BuildSchemaLoop(actions, n) ==
  IF n = 0 THEN EmptyObjectSchema
  ELSE Extend(BuildSchemaLoop(actions, n - 1), actions[n].name,
              NullableOptional(actions[n].valid))

\* buildDynamicActionSchema whose fields are nullable but not optional
buildDynamicActionSchema_Required(actions) ==
  LET built == BuildSchemaLoop(actions, Len(actions))
  IN  [k \in DOMAIN built |-> [built[k] EXCEPT !.optional = FALSE]]

buildDynamicActionSchema(actions) == BuildSchemaLoop(actions, Len(actions))

\* does a field schema accept the value v (present tells whether the key exists)
FieldAccepts(field, present, v) ==
  IF ~present THEN field.optional
  ELSE IF v = "null" THEN field.nullable
  ELSE v \in field.valid

\* the populated fields of an object: present and not null
Populated(data) == {k \in DOMAIN data : data[k] # "null"}

\* the result of safeParse: on success the object without the keys outside the shape
ParseResult(schema, data, ok) ==
  [success |-> ok,
   data |-> IF ok THEN [k \in (DOMAIN schema) \cap (DOMAIN data) |-> data[k]] ELSE <<>>]

\* every field of the shape accepts what the object has under its key
ShapeAccepts(schema, data) ==
  \A k \in DOMAIN schema :
    FieldAccepts(schema[k], k \in DOMAIN data, IF k \in DOMAIN data THEN data[k] ELSE "null")

\* ZodObject.safeParse that also rejects an object with more than one populated field
SchemaParse_ExactlyOne(schema, data) ==
  ParseResult(schema, data, ShapeAccepts(schema, data) /\ Cardinality(Populated(data)) <= 1)

\* ZodObject.safeParse
SchemaParse(schema, data) == ParseResult(schema, data, ShapeAccepts(schema, data))

(***************************************************************************)
(* Manual recovery of a decision from free text                            *)
(***************************************************************************)
\* the text without its characters open..close
CutOut(text, open, close) ==
  SubSeq(text, 1, open - 1) \o SubSeq(text, close + 1, Len(text))

\* position of the last character of the first </think> after the <think> at open
ThinkEnd(text, open) ==
  IF IndexOf(text, "</think>", open + Len("<think>")) = 0 THEN 0
  ELSE IndexOf(text, "</think>", open + Len("<think>")) + Len("</think>") - 1

RECURSIVE StripThinkFrom(_, _)
\* strips every <think>...</think> block, the first of which opens at open
StripThinkFrom(text, open) ==
  IF open = 0 \/ ThinkEnd(text, open) = 0 THEN text
  ELSE StripThinkFrom(CutOut(text, open, ThinkEnd(text, open)),
                      IndexOf(CutOut(text, open, ThinkEnd(text, open)), "<think>", 1))

\* strips every <think>...</think> block
removeThinkTags(text) == StripThinkFrom(text, IndexOf(text, "<think>", 1))

RECURSIVE MatchingBrace(_, _, _)
\* position of the "}" that closes the object opened before position i, 0 when unbalanced
MatchingBrace(s, i, depth) ==
  IF i > Len(s) THEN 0
  ELSE LET c == SubSeq(s, i, i)
       IN  IF c = "{" THEN MatchingBrace(s, i + 1, depth + 1)
           ELSE IF c = "}" THEN (IF depth = 1 THEN i ELSE MatchingBrace(s, i + 1, depth - 1))
           ELSE MatchingBrace(s, i + 1, depth)

\* the substring open..close, when both positions exist
ObjectBetween(text, open, close) ==
  IF open = 0 \/ close = 0 THEN [found |-> FALSE, text |-> ""]
  ELSE [found |-> TRUE, text |-> SubSeq(text, open, close)]

\* the balanced {...} substring that opens at open
ObjectFrom(text, open) ==
  ObjectBetween(text, open, IF open = 0 THEN 0 ELSE MatchingBrace(text, open + 1, 1))

\* the first top-level balanced {...} substring
FirstJsonObject(text) == ObjectFrom(text, IndexOf(text, "{", 1))

RECURSIVE SplitAt(_, _, _)
\* split, given the position at of the first separator in s
SplitAt(s, sep, at) ==
  IF at = 0 THEN <<s>>
  ELSE <<SubSeq(s, 1, at - 1)>>
       \o SplitAt(SubSeq(s, at + 1, Len(s)), sep, IndexOf(SubSeq(s, at + 1, Len(s)), sep, 1))

\* String.prototype.split on a one-character separator
Split(s, sep) == SplitAt(s, sep, IndexOf(s, sep, 1))

Digits == {"0", "1", "2", "3", "4", "5", "6", "7", "8", "9"}

\* the JSON scalars of the model: null and unsigned integers
IsJsonScalar(v) ==
  \/ v = "null"
  \/ Len(v) >= 1 /\ \A i \in 1..Len(v) : SubSeq(v, i, i) \in Digits

\* the member "key":value whose key ends before the quote at position quote
MemberAt(piece, quote) ==
  IF /\ quote > 0
     /\ SubSeq(piece, quote + 1, quote + 1) = ":"
     /\ IsJsonScalar(SubSeq(piece, quote + 2, Len(piece)))
    THEN [ok |-> TRUE, key |-> SubSeq(piece, 2, quote - 1),
          value |-> SubSeq(piece, quote + 2, Len(piece))]
    ELSE [ok |-> FALSE, key |-> "", value |-> ""]

\* one "key":value member of an object
ParseMember(piece) ==
  MemberAt(piece, IF Len(piece) >= 1 /\ SubSeq(piece, 1, 1) = "\""
                    THEN IndexOf(piece, "\"", 2) ELSE 0)

\* the object of a sequence of parsed members; a repeated key keeps its last value
ObjectOf(members) ==
  IF \A i \in 1..Len(members) : members[i].ok
    THEN [ok |-> TRUE,
          value |-> [k \in {members[i].key : i \in 1..Len(members)} |->
                       members[CHOOSE i \in 1..Len(members) :
                                 /\ members[i].key = k
                                 /\ \A j \in (i + 1)..Len(members) : members[j].key # k].value]]
    ELSE [ok |-> FALSE, value |-> <<>>]

\* the parsed members of the text between the braces
ParseMembers(inner) ==
  IF inner = "" THEN <<>>
  ELSE [i \in 1..Len(Split(inner, ",")) |-> ParseMember(Split(inner, ",")[i])]

\* JSON.parse of a {...} text
JsonParseObject(s) == ObjectOf(ParseMembers(SubSeq(s, 2, Len(s) - 1)))

\* JSON.parse of the object found, a throw (ok = FALSE) when none was found
ParseFound(object) ==
  IF ~object.found THEN [ok |-> FALSE, value |-> <<>>]
  ELSE JsonParseObject(object.text)

\* throws (ok = FALSE) when the text holds no balanced object or the object does not parse
extractJsonFromModelOutput(content) == ParseFound(FirstJsonObject(content))

NoError == MkNonError("")

Undefined == [kind |-> "undefined", value |-> <<>>, error |-> NoError]
Value(v) == [kind |-> "value", value |-> v, error |-> NoError]
Throw(e) == [kind |-> "throw", value |-> <<>>, error |-> e]

\* validateModelOutput that hands the data back without parsing it
validateModelOutput_NoParse(schema, hasData, data) ==
  IF ~hasData THEN Undefined ELSE Value(data)

\* try { return parse(data) } catch { throw new ResponseParseError }
ParsedOrThrow(parsed) ==
  IF parsed.success THEN Value(parsed.data)
  ELSE Throw(ResponseParseError("Could not validate model output"))

\* hasData is the truthiness of data
validateModelOutput(schema, hasData, data) ==
  IF ~hasData THEN Undefined
  ELSE ParsedOrThrow(SchemaParse(schema, data))

\* the catch of manuallyParseResponse: a throw becomes undefined
CaughtToUndefined(result) ==
  IF result.kind = "throw" THEN Undefined ELSE result

\* the try block of manuallyParseResponse, given what extractJsonFromModelOutput did
ValidateExtracted(schema, extractedJson) ==
  IF ~extractedJson.ok THEN Throw(MkError("Error", "Could not extract JSON from model output."))
  ELSE validateModelOutput(schema, TRUE, extractedJson.value)

manuallyParseResponse_KeepThink(schema, content) ==
  CaughtToUndefined(ValidateExtracted(schema, extractJsonFromModelOutput(content)))

manuallyParseResponse(schema, content) ==
  CaughtToUndefined(
    ValidateExtracted(schema, extractJsonFromModelOutput(removeThinkTags(content))))

(***************************************************************************)
(* BaseAgent: construction                                                 *)
(***************************************************************************)
isLlamaModel(name) ==
  Includes(name, "Llama-4") \/ Includes(name, "Llama-3.3") \/ Includes(name, "llama-3.3")

\* ProviderTypeEnum.Llama
ProviderLlama == "llama"

\* setWithStructuredOutput that knows deepseek-reasoner only
setWithStructuredOutput_ReasonerOnly(name, prov) ==
  IF name = "deepseek-reasoner" THEN FALSE
  ELSE IF prov = ProviderLlama \/ isLlamaModel(name) THEN FALSE
  ELSE TRUE

setWithStructuredOutput(name, prov) ==
  IF name = "deepseek-reasoner" \/ name = "deepseek-r1" THEN FALSE
  ELSE IF prov = ProviderLlama \/ isLlamaModel(name) THEN FALSE
  ELSE TRUE

\* supportsVision without the test for preview models
supportsVision_NoPreviewCheck(name, prov, library) ==
  LET modelNameLower == toLowerCase(name)
  IN  IF prov = "gemini" \/ library = "ChatGoogleGenerativeAI"
        THEN \/ Includes(modelNameLower, "flash") /\ Includes(modelNameLower, "2.")
             \/ Includes(modelNameLower, "pro") /\ Includes(modelNameLower, "2.")
      ELSE IF prov = "openai" \/ library = "ChatOpenAI"
        THEN \/ Includes(modelNameLower, "gpt-4o") \/ Includes(modelNameLower, "gpt-5")
             \/ Includes(modelNameLower, "vision")
             \/ Includes(modelNameLower, "gpt-4-turbo")
      ELSE IF prov = "anthropic" \/ library = "ChatAnthropic"
        THEN Includes(modelNameLower, "claude-3") \/ Includes(modelNameLower, "claude-4")
      ELSE FALSE

\* The provider names are the values of ProviderTypeEnum; the branches for
\* Llama and DeepSeek return false like the default.
supportsVision(name, prov, library) ==
  LET modelNameLower == toLowerCase(name)
  IN  IF prov = "gemini" \/ library = "ChatGoogleGenerativeAI"
        THEN IF Includes(modelNameLower, "preview") THEN FALSE
             ELSE \/ Includes(modelNameLower, "flash") /\ Includes(modelNameLower, "2.")
                  \/ Includes(modelNameLower, "pro") /\ Includes(modelNameLower, "2.")
      ELSE IF prov = "openai" \/ library = "ChatOpenAI"
        THEN \/ Includes(modelNameLower, "gpt-4o") \/ Includes(modelNameLower, "gpt-5")
             \/ Includes(modelNameLower, "vision")
             \/ Includes(modelNameLower, "gpt-4-turbo")
      ELSE IF prov = "anthropic" \/ library = "ChatAnthropic"
        THEN Includes(modelNameLower, "claude-3") \/ Includes(modelNameLower, "claude-4")
      ELSE FALSE

\* A message is [type, content]; its content is a string (isArray false, the
\* string in text) or an array of parts (isArray true, the parts in parts); a
\* part is [type, text, image_url].
\* stripImagesFromMessages that returns the messages as they are
stripImagesFromMessages_Unchanged(messages, name, prov, library) ==
  messages

stripImagesFromMessages(messages, name, prov, library) ==
  IF supportsVision(name, prov, library) THEN messages
  ELSE [i \in 1..Len(messages) |->
          IF messages[i].content.isArray
            THEN LET texts == SelectSeq(messages[i].content.parts,
                                        LAMBDA item : item.type = "text")
                     joined[k \in 0..Len(texts)] ==
                       IF k = 0 THEN ""
                       ELSE IF k = 1 THEN texts[1].text
                       ELSE joined[k - 1] \o "\n" \o texts[k].text
                 IN  [messages[i] EXCEPT
                        !.content = [isArray |-> FALSE, text |-> joined[Len(texts)],
                                     parts |-> <<>>]]
            ELSE messages[i]]

\* convertInputMessages of the manual path: the messages as they were prepared
convertInputMessages(messages, name) ==
  messages

(***************************************************************************)
(* BaseAgent.invoke                                                        *)
(*                                                                         *)
(* The result of the awaited model call is a record: type "throw" (the     *)
(* call rejected with error), "structured" (withStructuredOutput with      *)
(* includeRaw: parsed may be null, raw.content may be a string or an       *)
(* array) or "text" (the plain call: content may be a string or an array). *)
(***************************************************************************)
CallThrows(e) ==
  [type |-> "throw", error |-> e, hasParsed |-> FALSE, parsed |-> <<>>,
   contentIsString |-> FALSE, content |-> ""]

CallStructured(hasParsed, parsed, contentIsString, content) ==
  [type |-> "structured", error |-> NoError, hasParsed |-> hasParsed, parsed |-> parsed,
   contentIsString |-> contentIsString, content |-> content]

CallText(contentIsString, content) ==
  [type |-> "text", error |-> NoError, hasParsed |-> FALSE, parsed |-> <<>>,
   contentIsString |-> contentIsString, content |-> content]

NoCall == CallText(FALSE, "")

\* how invoke ends: it returns value, throws error, or (type "fallthrough") control leaves
\* the structured block and reaches the manual path; manualParses counts the calls of
\* manuallyParseResponse
Return(v, n) == [type |-> "return", value |-> v, error |-> NoError, manualParses |-> n]
Raise(e, n) == [type |-> "throw", value |-> <<>>, error |-> e, manualParses |-> n]
FallThrough(n) == [type |-> "fallthrough", value |-> <<>>, error |-> NoError, manualParses |-> n]
NoOutcome == [type |-> "none", value |-> <<>>, error |-> NoError, manualParses |-> 0]

\* the catch block of the structured path without its isAbortedError test
StructuredCatch_NoAbortCheck(name, schema, error, call) ==
  Raise(MkError("Error", "Failed to invoke " \o name
                         \o " with structured output: \n" \o error.message), 0)

\* the catch block of the structured path that leaves the block instead of throwing
StructuredCatch_FallThrough(name, schema, error, call) ==
  IF isAbortedError(error) THEN Raise(error, 0) ELSE FallThrough(0)

\* if (parsed) return parsed; otherwise the throw that follows
ReturnIfParsed(parsed, otherwise) ==
  IF parsed.kind = "value" THEN Return(parsed.value, 1) ELSE Raise(otherwise, 1)

\* the catch block of the structured path; call is the response when the await resolved
\* (response is undefined when call.type = "throw")
StructuredCatch(name, schema, error, call) ==
  IF isAbortedError(error) THEN Raise(error, 0)
  ELSE IF /\ Includes(error.message, "is not valid JSON")
          /\ call.type = "structured"
          /\ call.contentIsString
          /\ call.content # ""
    THEN ReturnIfParsed(manuallyParseResponse(schema, call.content),
                        MkError("Error", "Failed to invoke " \o name
                                         \o " with structured output: \n" \o error.message))
    ELSE Raise(MkError("Error", "Failed to invoke " \o name
                                \o " with structured output: \n" \o error.message), 0)

\* what the try block of the structured path throws when it does not return
ThrownInTry(call) ==
  IF call.type = "throw" THEN call.error
  ELSE MkError("Error", "Could not parse response with structured output")

\* the structured path from the moment the awaited call settles
InvokeStructured(name, schema, call) ==
  IF call.type = "structured" /\ call.hasParsed THEN Return(call.parsed, 0)
  ELSE StructuredCatch(name, schema, ThrownInTry(call), call)

\* the manual path from the moment the awaited call settles
InvokeManual(name, schema, call) ==
  IF call.type = "throw" THEN Raise(call.error, 0)
  ELSE IF call.contentIsString
    THEN ReturnIfParsed(manuallyParseResponse(schema, call.content),
                        ResponseParseError("Could not parse response"))
    ELSE Raise(ResponseParseError("Could not parse response"), 0)

(***************************************************************************)
(* Inputs                                                                  *)
(***************************************************************************)
\* the actions a catalogue is drawn from; two of them share the name wait
ActionPool ==
  { [name |-> "go_to_url", valid |-> {"1"}],
    [name |-> "wait", valid |-> {"1", "2"}],
    [name |-> "wait", valid |-> {"2"}] }

ActionLists == UNION {[1..n -> ActionPool] : n \in 0..MaxActions}

ModelNames == {"gpt-4o", "gpt-4", "deepseek-reasoner", "deepseek-r1", "Llama-4-Scout"}
Providers == {"openai", "llama"}

\* conversations handed to invoke: string content, array content of text and
\* image parts, array content of one image
InputMessages ==
  LET text(t) == [type |-> "text", text |-> t, image_url |-> ""]
      image == [type |-> "image_url", text |-> "", image_url |-> "data:image/jpeg;base64"]
      string(type, t) ==
        [type |-> type, content |-> [isArray |-> FALSE, text |-> t, parts |-> <<>>]]
      array(type, parts) ==
        [type |-> type, content |-> [isArray |-> TRUE, text |-> "", parts |-> parts]]
  IN  { <<string("system", "You are an agent"),
          array("human", <<text("state"), image, text("task")>>)>>,
        <<array("human", <<image>>)>> }

\* texts a model may answer with
JsonTexts ==
  { "{}",
    "{\"wait\":1}",
    "{\"go_to_url\":1,\"wait\":null}",
    "{\"go_to_url\":1,\"wait\":2}",
    "{\"go_to_url\":2}",
    "{\"wait\":null}",
    "{\"zzz\":1,\"wait\":2}" }

Contents ==
  JsonTexts \cup
  { "",
    "I cannot help",
    "{oops}",
    "{\"wait\":1",
    "Sure: {\"wait\":2} done",
    "<think>{\"go_to_url\":2}</think>{\"wait\":1}",
    "<think>plan</think>{\"go_to_url\":1,\"wait\":1}" }
  \cup {"<think>" \o t \o "</think>" \o j :
          t \in {"plan", "a}{b", "{\"go_to_url\":1}"}, j \in JsonTexts}

\* what the structured-output wrapper parses: the arguments of the tool call, when the reply
\* has one; parsed is null unless they satisfy the schema
ToolArguments == {JsonParseObject(t).value : t \in JsonTexts}

\* the response whose parsed value is the result of parsing the tool arguments
ResponseOf(parsed, isString, content) ==
  CallStructured(parsed.success, parsed.data, isString, content)

StructuredResponses(schema) ==
  {CallStructured(FALSE, <<>>, isString, content) :
     isString \in BOOLEAN, content \in Contents}
  \cup
  {ResponseOf(SchemaParse(schema, args), isString, content) :
     args \in ToolArguments, isString \in BOOLEAN, content \in {"", "{\"wait\":1}"}}

TextResponses ==
  {CallText(TRUE, content) : content \in Contents} \cup {CallText(FALSE, "")}

\* what the model call rejects with once the signal has fired
AbortSignalErrors ==
  { MkError("AbortError", "The operation was aborted"),
    MkError("AbortError", "Request failed with status 403"),
    MkError("AbortError", "signal is aborted without reason: 403 Forbidden"),
    MkError("Error", "Request Aborted by client") }

\* what the model call rejects with otherwise
ProviderErrors ==
  { MkError("AuthenticationError", "some error"),
    MkStatusError("Error", "Unauthorized", 401),
    MkError("Error", "Invalid API key provided"),
    MkStatusError("Error", "Access denied", 403),
    MkError("Error", "Request failed with status 403"),
    MkError("BadRequestError", "bad request"),
    MkError("Error", "response_format with json_schema type is not supported"),
    MkError("Error", "Unexpected token < in JSON: text is not valid JSON"),
    MkError("Error", "Cannot access a chrome-extension:// URL of different extension"),
    MkError("Error", "timeout"),
    MkError("Error", "The operation was aborted"),
    MkError("Error", "Request Aborted by client"),
    MkNonError("string error") }

(***************************************************************************)
(* memoryStore                                                             *)
(*                                                                         *)
(* A pattern is [id, domain, taskType, description, successCount,          *)
(* lastUsed]; createdAt, selectors and actionSequence, which no operation  *)
(* reads, are left out.  A preference is [key, value, lastUpdated].        *)
(***************************************************************************)
MaxCallers == 2
MaxClock == 1
MaxCalls == 4

DEFAULT_AGENT_MEMORY ==
  [settings |-> [enabled |-> TRUE, maxPatterns |-> 100, maxPreferences |-> 50],
   patterns |-> <<>>,
   preferences |-> <<>>]

\* items.sort((a, b) => time(b) - time(a)), where times[i] is the time of
\* items[i]: newest first, equal times in the order they had
SortNewestFirst(items, times) ==
  LET Insert(sorted, i) ==
        LET n == Cardinality({j \in 1..Len(sorted) : times[sorted[j]] >= times[i]})
        IN  SubSeq(sorted, 1, n) \o <<i>> \o SubSeq(sorted, n + 1, Len(sorted))
      order[k \in 0..Len(items)] ==
        IF k = 0 THEN <<>> ELSE Insert(order[k - 1], k)
  IN  [k \in 1..Len(items) |-> items[order[Len(items)][k]]]

\* addPattern that lets the list grow past maxPatterns
addPattern_NoLimit(mem, pattern, time) ==
  LET existing == {i \in 1..Len(mem.patterns) :
                     /\ mem.patterns[i].domain = pattern.domain
                     /\ mem.patterns[i].taskType = pattern.taskType
                     /\ mem.patterns[i].description = pattern.description}
  IN  IF existing # {}
        THEN LET existingIndex == CHOOSE i \in existing : \A j \in existing : i <= j
             IN  [mem EXCEPT !.patterns[existingIndex].successCount = @ + 1,
                             !.patterns[existingIndex].lastUsed = time]
        ELSE [mem EXCEPT !.patterns =
                Append(@, [pattern EXCEPT !.lastUsed = time]
                            @@ [id |-> CHOOSE id \in 1..(Len(mem.patterns) + 1) :
                                         \A i \in 1..Len(mem.patterns) :
                                           mem.patterns[i].id # id,
                                successCount |-> 1])]

\* addPattern that does not look for the pattern among the stored ones
addPattern_AlwaysInsert(mem, pattern, time) ==
  LET newPattern ==
        [pattern EXCEPT !.lastUsed = time]
          @@ [id |-> CHOOSE id \in 1..(Len(mem.patterns) + 1) :
                       \A i \in 1..Len(mem.patterns) : mem.patterns[i].id # id,
              successCount |-> 1]
      patterns == Append(mem.patterns, newPattern)
  IN  [mem EXCEPT !.patterns =
         IF Len(patterns) > mem.settings.maxPatterns
           THEN SubSeq(SortNewestFirst(patterns, [i \in 1..Len(patterns) |->
                                                    patterns[i].lastUsed]),
                       1, mem.settings.maxPatterns)
           ELSE patterns]

\* memoryStore.addPattern: the memory it stores; the id of a new pattern is one
\* that no stored pattern has
addPattern(mem, pattern, time) ==
  LET existing == {i \in 1..Len(mem.patterns) :
                     /\ mem.patterns[i].domain = pattern.domain
                     /\ mem.patterns[i].taskType = pattern.taskType
                     /\ mem.patterns[i].description = pattern.description}
  IN  IF existing # {}
        THEN LET existingIndex == CHOOSE i \in existing : \A j \in existing : i <= j
             IN  [mem EXCEPT !.patterns[existingIndex].successCount = @ + 1,
                             !.patterns[existingIndex].lastUsed = time]
        ELSE LET newPattern ==
                   [pattern EXCEPT !.lastUsed = time]
                     @@ [id |-> CHOOSE id \in 1..(Len(mem.patterns) + 1) :
                                  \A i \in 1..Len(mem.patterns) : mem.patterns[i].id # id,
                         successCount |-> 1]
                 patterns == Append(mem.patterns, newPattern)
             IN  [mem EXCEPT !.patterns =
                    IF Len(patterns) > mem.settings.maxPatterns
                      THEN SubSeq(SortNewestFirst(patterns, [i \in 1..Len(patterns) |->
                                                    patterns[i].lastUsed]),
                                  1, mem.settings.maxPatterns)
                      ELSE patterns]

\* updateSettings that starts from the default settings, not the stored ones
updateSettings_FromDefaults(mem, settings) ==
  [mem EXCEPT !.settings = settings @@ DEFAULT_AGENT_MEMORY.settings]

\* memoryStore.updateSettings: settings has the supplied keys only
updateSettings(mem, settings) ==
  [mem EXCEPT !.settings = settings @@ mem.settings @@ DEFAULT_AGENT_MEMORY.settings]

(***************************************************************************)
(* State                                                                   *)
(***************************************************************************)
VARIABLES
  actions,              \* the catalogue the decision schema is built from
  modelOutputSchema,    \* BaseAgent.modelOutputSchema
  modelName,            \* BaseAgent.modelName
  provider,             \* BaseAgent.provider
  chatModelLibrary,     \* BaseAgent.chatModelLibrary
  withStructuredOutput, \* BaseAgent.withStructuredOutput
  sent,                 \* the messages given to invoke and those passed to the model
                        \* call in flight
  pc,                   \* where invoke stands: idle, structuredCall, manualCall, done
  signalAborted,        \* context.controller.signal.aborted
  modelCalls,           \* model calls started by the current invoke
  call,                 \* how the last model call of the current invoke settled
  outcome,              \* how the current invoke ended
  invocations,          \* invoke calls started so far
  actionCall,           \* the last Action.call: what was called and how it ended
  pureCall,             \* the last call of a pure function: input and output
  memory,               \* the AgentMemory kept in storage under 'agent-memory'
  now,                  \* Date.now()
  memoryCall,           \* the last memoryStore call: what was called, on how many patterns
  profile,              \* the UserProfile kept in storage under 'user-profile'
  inFlight              \* the store calls in flight, by caller: where each stands, what
                        \* it has read, what it returned

vars == <<actions, modelOutputSchema, modelName, provider, chatModelLibrary,
          withStructuredOutput, sent, pc, signalAborted, modelCalls, call, outcome,
          invocations, actionCall, pureCall, memory, now, memoryCall, profile, inFlight>>

config == <<actions, modelOutputSchema, modelName, provider, chatModelLibrary,
            withStructuredOutput>>

\* the agent after its constructor
Init ==
  /\ actions \in ActionLists
  /\ modelOutputSchema = buildDynamicActionSchema(actions)
  /\ modelName \in ModelNames
  /\ provider \in Providers
  /\ chatModelLibrary = "ChatOpenAI"
  /\ withStructuredOutput = setWithStructuredOutput(modelName, provider)
  /\ sent = [inputMessages |-> <<>>, messages |-> <<>>]
  /\ pc = "idle"
  /\ signalAborted = FALSE
  /\ modelCalls = 0
  /\ call = NoCall
  /\ outcome = NoOutcome
  /\ invocations = 0
  /\ actionCall = [kind |-> "none"]
  /\ pureCall = [op |-> "none"]
  /\ memory = DEFAULT_AGENT_MEMORY
  /\ now = 0
  /\ memoryCall = [op |-> "none", calls |-> 0]
  /\ profile = [userId |-> "unknown", credentials |-> <<>>]
  /\ inFlight = [caller \in 1..MaxCallers |->
                   [op |-> "none", pc |-> "idle", read |-> <<>>, arg |-> <<>>,
                    returned |-> ""]]

\* invoke up to its await
InvokeStart ==
  /\ pc \in {"idle", "done"}
  /\ invocations < MaxInvocations
  /\ invocations' = invocations + 1
  /\ pc' = IF withStructuredOutput THEN "structuredCall" ELSE "manualCall"
  /\ \E inputMessages \in InputMessages :
       LET processedMessages ==
             stripImagesFromMessages(inputMessages, modelName, provider, chatModelLibrary)
       IN  sent' = [inputMessages |-> inputMessages,
                    messages |-> IF withStructuredOutput
                                   THEN processedMessages
                                   ELSE convertInputMessages(processedMessages, modelName)]
  /\ modelCalls' = 1
  /\ call' = NoCall
  /\ outcome' = NoOutcome
  /\ UNCHANGED <<config, signalAborted, actionCall, pureCall,
               memory, now, memoryCall, profile, inFlight>>

\* controller.abort() while the model call is in flight
Abort ==
  /\ pc \in {"structuredCall", "manualCall"}
  /\ ~signalAborted
  /\ signalAborted' = TRUE
  /\ UNCHANGED <<config, sent, pc, modelCalls, call, outcome, invocations, actionCall, pureCall,
               memory, now, memoryCall, profile, inFlight>>

\* the rest of invoke once the call has settled as c
Settle(c) ==
  /\ call' = c
  /\ outcome' = IF pc = "structuredCall"
                  THEN InvokeStructured(modelName, modelOutputSchema, c)
                  ELSE InvokeManual(modelName, modelOutputSchema, c)
  /\ IF outcome'.type = "fallthrough"
       THEN pc' = "manualCall" /\ modelCalls' = modelCalls + 1 /\ UNCHANGED sent
       ELSE /\ pc' = "done"
            /\ sent' = [inputMessages |-> <<>>, messages |-> <<>>]
            /\ UNCHANGED modelCalls
  /\ UNCHANGED <<config, signalAborted, invocations, actionCall, pureCall,
               memory, now, memoryCall, profile, inFlight>>

\* the model call rejects
ModelCallThrows ==
  /\ pc \in {"structuredCall", "manualCall"}
  /\ \E e \in (IF signalAborted THEN AbortSignalErrors ELSE ProviderErrors) :
       Settle(CallThrows(e))

\* the structured call resolves
StructuredCallReturns ==
  /\ pc = "structuredCall"
  /\ ~signalAborted
  /\ \E c \in StructuredResponses(modelOutputSchema) : Settle(c)

\* the plain call of the manual path resolves
ManualCallReturns ==
  /\ pc = "manualCall"
  /\ ~signalAborted
  /\ \E c \in TextResponses : Settle(c)

Next ==
  \/ InvokeStart
  \/ Abort
  \/ ModelCallThrows
  \/ StructuredCallReturns
  \/ ManualCallReturns

Spec == Init /\ [][Next]_vars

(***************************************************************************)
(* Properties of invoke                                                    *)
(***************************************************************************)
\* every field of the schema accepts what the value has under its key
Conforms(schema, value) ==
  \A k \in DOMAIN schema :
    IF k \notin DOMAIN value THEN schema[k].optional
    ELSE IF value[k] = "null" THEN schema[k].nullable
    ELSE value[k] \in schema[k].valid

\* what manual recovery finds in a text before validation
Extracted(content) == extractJsonFromModelOutput(removeThinkTags(content))

\* C1: whatever invoke returns, on the structured path and on the manual path, conforms to
\* the agent's output schema
C1_ReturnConformsToSchema ==
  outcome.type = "return" => Conforms(modelOutputSchema, outcome.value)

\* a manual-path invoke has returned a decision with a populated field
C1_Witness ==
  /\ pc = "done"
  /\ ~withStructuredOutput
  /\ outcome.type = "return"
  /\ Populated(outcome.value) # {}

\* the model call rejected with an Error named AbortError or whose message has "Aborted"
CallAborted ==
  /\ call.type = "throw"
  /\ call.error.isError
  /\ call.error.name = "AbortError" \/ Includes(call.error.message, "Aborted")

\* C2: when the model call fails with an aborted error, invoke raises that aborted error,
\* manuallyParseResponse is not called and no second model call is made, on both paths
C2_AbortPropagates ==
  (pc = "done" /\ CallAborted) =>
    /\ outcome.type = "throw"
    /\ outcome.error = call.error
    /\ isAbortedError(outcome.error)
    /\ outcome.manualParses = 0
    /\ modelCalls = 1

\* the signal fired during a structured call and the invoke has ended
C2_Witness ==
  /\ pc = "done"
  /\ withStructuredOutput
  /\ signalAborted
  /\ CallAborted
  /\ outcome.type = "throw"

\* C3: a failure named AbortError whose message contains "403" leaves invoke as the same
\* aborted error, never as a forbidden error
C3_AbortBeforeForbidden ==
  (/\ pc = "done"
   /\ call.type = "throw"
   /\ call.error.isError
   /\ call.error.name = "AbortError"
   /\ Includes(call.error.message, "403")) =>
    /\ outcome.type = "throw"
    /\ outcome.error = call.error
    /\ isAbortedError(outcome.error)
    /\ outcome.error.name # "ChatModelForbiddenError"

\* a structured call failed with an AbortError that isForbiddenError accepts as well
C3_Witness ==
  /\ pc = "done"
  /\ withStructuredOutput
  /\ call.type = "throw"
  /\ call.error.name = "AbortError"
  /\ Includes(call.error.message, "403")
  /\ isForbiddenError(call.error)
  /\ outcome.type = "throw"

\* C4: on the structured path, a response without a parsed value whose raw text holds a
\* JSON object valid against the schema makes invoke return the recovered decision
C4_StructuredRecovers ==
  (/\ pc = "done"
   /\ withStructuredOutput
   /\ call.type = "structured"
   /\ ~call.hasParsed
   /\ call.contentIsString
   /\ Extracted(call.content).ok
   /\ SchemaParse(modelOutputSchema, Extracted(call.content).value).success) =>
    /\ outcome.type = "return"
    /\ outcome.value = SchemaParse(modelOutputSchema, Extracted(call.content).value).data

\* the model call resolved and neither a parsed value nor the text gives a valid decision
NoValidDecision ==
  /\ call.type \in {"structured", "text"}
  /\ ~call.hasParsed
  /\ \/ ~call.contentIsString
     \/ ~Extracted(call.content).ok
     \/ ~SchemaParse(modelOutputSchema, Extracted(call.content).value).success

\* C5: when the model call completes and no valid decision can be obtained, invoke raises
\* a ResponseParseError, on the structured path as on the manual path
C5_ParseFailureIsResponseParseError ==
  (pc = "done" /\ NoValidDecision) =>
    outcome.type = "throw" /\ outcome.error.name = "ResponseParseError"

\* C6: one invoke makes at most one model call; the structured block is never left for the
\* manual path
C6_AtMostOneModelCall ==
  /\ modelCalls <= 1
  /\ outcome.type # "fallthrough"
  /\ withStructuredOutput => pc # "manualCall"

\* a structured call has failed or given nothing parsable, and the invoke has ended
C6_Witness ==
  /\ pc = "done"
  /\ withStructuredOutput
  /\ outcome.type = "throw"
  /\ ~isAbortedError(outcome.error)
  /\ modelCalls = 1

\* the name of the classified error a failure maps to, in the priority order
\* authentication, forbidden, bad request, environment conflict
ClassifiedName(error) ==
  IF isAuthenticationError(error) THEN "ChatModelAuthError"
  ELSE IF isForbiddenError(error) THEN "ChatModelForbiddenError"
  ELSE IF isBadRequestError(error) THEN "ChatModelBadRequestError"
  ELSE IF isExtensionConflictError(error) THEN "ExtensionConflictError"
  ELSE "Unclassified"

\* C7: every failure of the model call that is not a cancellation leaves invoke as the
\* classified error of its kind; an unclassified one keeps its message
C7_FailureIsClassified ==
  (pc = "done" /\ call.type = "throw" /\ ~isAbortedError(call.error)) =>
    /\ outcome.type = "throw"
    /\ IF ClassifiedName(call.error) = "Unclassified"
         THEN outcome.error.message = call.error.message
         ELSE outcome.error.name = ClassifiedName(call.error)

(***************************************************************************)
(* Properties of the decision schema                                       *)
(***************************************************************************)
\* the action a field of the schema is built from: the last one of that name
IsLastOfName(i) ==
  \A j \in 1..Len(actions) : actions[j].name = actions[i].name => j <= i

\* C8: the schema has exactly one field per distinct action name and no other field, and
\* every field accepts an absent value, null and every value its action's schema accepts
C8_SchemaFields ==
  /\ DOMAIN modelOutputSchema = {actions[i].name : i \in 1..Len(actions)}
  /\ \A i \in 1..Len(actions) :
       IsLastOfName(i) =>
         LET field == modelOutputSchema[actions[i].name]
         IN  /\ FieldAccepts(field, FALSE, "null")
             /\ FieldAccepts(field, TRUE, "null")
             /\ \A v \in actions[i].valid : FieldAccepts(field, TRUE, v)

\* a catalogue of two differently named actions
C8_Witness ==
  /\ Len(actions) >= 2
  /\ Cardinality(DOMAIN modelOutputSchema) = 2

\* C9: an output that populates no action field is not returned by invoke
C9_EmptyDecisionRejected ==
  (pc = "done" /\ outcome.type = "return") =>
    Populated(outcome.value) \cap DOMAIN modelOutputSchema # {}

\* C10 as stated: a payload with two or more populated fields is never returned by invoke
C10_MultiFieldRejected ==
  (pc = "done" /\ outcome.type = "return") =>
    Cardinality(Populated(outcome.value) \cap DOMAIN modelOutputSchema) <= 1

\* the populated fields of a payload that the schema knows
Chosen(data) == Populated(data) \cap DOMAIN modelOutputSchema

\* C10 amended: a payload with two or more populated fields is accepted whenever each
\* populated value is valid for its own action, and invoke returns it with all of them; on
\* the manual path it is refused, with a ResponseParseError, only when one of them is invalid
C10_MultiFieldAccepted ==
  /\ (/\ pc = "done"
      /\ call.type = "text"
      /\ call.contentIsString
      /\ Extracted(call.content).ok
      /\ Cardinality(Chosen(Extracted(call.content).value)) >= 2) =>
       LET data == Extracted(call.content).value
       IN  IF \A k \in Chosen(data) : data[k] \in modelOutputSchema[k].valid
             THEN outcome.type = "return" /\ Chosen(outcome.value) = Chosen(data)
             ELSE outcome.type = "throw" /\ outcome.error.name = "ResponseParseError"
  /\ (/\ pc = "done"
      /\ call.type = "structured"
      /\ call.hasParsed
      /\ Cardinality(Chosen(call.parsed)) >= 2) =>
       outcome.type = "return" /\ outcome.value = call.parsed

\* a manual-path invoke has returned a decision with two populated fields
C10_Witness ==
  /\ pc = "done"
  /\ call.type = "text"
  /\ outcome.type = "return"
  /\ Cardinality(Chosen(outcome.value)) >= 2

\* C18: when the reply on the manual path is a thinking block followed by a JSON
\* object, invoke returns exactly the validated value of that JSON object, and
\* refuses the reply when that object is not valid; what the thinking block
\* holds, braces and JSON included, changes nothing.
C18_ThinkingBlockIgnored ==
  \A t \in {"plan", "a}{b", "{\"go_to_url\":1}"}, j \in JsonTexts :
    (/\ pc = "done"
     /\ ~withStructuredOutput
     /\ call.type = "text"
     /\ call.contentIsString
     /\ call.content = "<think>" \o t \o "</think>" \o j)
    => IF SchemaParse(modelOutputSchema, JsonParseObject(j).value).success
         THEN /\ outcome.type = "return"
              /\ outcome.value = SchemaParse(modelOutputSchema, JsonParseObject(j).value).data
         ELSE outcome.type = "throw"

\* a reply whose thinking block holds a valid decision of its own was answered
\* with the decision that follows the block
C18_Witness ==
  /\ pc = "done"
  /\ ~withStructuredOutput
  /\ call.type = "text"
  /\ call.content = "<think>{\"go_to_url\":1}</think>{\"wait\":1}"
  /\ outcome.type = "return"
  /\ DOMAIN outcome.value = {"wait"}

(***************************************************************************)
(* Action: input values, schemas and safeParse                             *)
(***************************************************************************)
MaxIndex == 1

\* a value of an input: its type and what it holds
Val(t, x) == [t |-> t, x |-> x]

\* a key that is missing reads as undefined
Absent == Val("undefined", 0)

\* JavaScript truthiness, as in `if (input.index)` and `input.site || ...`
Truthy(v) ==
  CASE v.t = "undefined" -> FALSE
    [] v.t = "number" -> v.x # 0
    [] v.t = "string" -> v.x # ""
    [] v.t = "boolean" -> v.x
    [] OTHER -> TRUE

\* one field of a z.object shape
Field(key, type, optional) == [key |-> key, type |-> type, optional |-> optional]

\* the fields of the shape an object fails, in the order of the shape: a field
\* accepts a value of its type, and undefined when it is optional
Issues(schema, fields) ==
  SelectSeq(schema,
    LAMBDA f : IF f.key \notin DOMAIN fields \/ fields[f.key] = Absent
                 THEN ~f.optional
                 ELSE fields[f.key].t # f.type)

\* the text of a ZodError: its issues, one after the other
RECURSIVE IssueText(_)
IssueText(issues) ==
  IF issues = <<>> THEN ""
  ELSE "[" \o Head(issues).key \o ": expected " \o Head(issues).type \o "]"
       \o IssueText(Tail(issues))

\* safeParse of an object once its issues are known: unknown keys are stripped
ParseObject(schema, fields, issues) ==
  IF issues = <<>>
    THEN [success |-> TRUE, message |-> "",
          data |-> [k \in {schema[i].key : i \in DOMAIN schema} |->
                      IF k \in DOMAIN fields THEN fields[k] ELSE Absent]]
    ELSE [success |-> FALSE, message |-> IssueText(issues), data |-> <<>>]

\* schema.safeParse(input)
safeParse(schema, input) ==
  IF input.isObject
    THEN ParseObject(schema, input.fields, Issues(schema, input.fields))
    ELSE [success |-> FALSE, message |-> "[expected object]", data |-> <<>>]

\* new InvalidInputError(message)
InvalidInputError(message) == MkError("InvalidInputError", message)

\* new ActionResult(params): what params leaves out takes its default
ActionResult(params) == params @@ [isDone |-> FALSE, includeInMemory |-> FALSE]

(***************************************************************************)
(* A handler run: the events it emits, the environment operations it       *)
(* performs and how it ends                                                *)
(***************************************************************************)
\* emitEvent(Actors.NAVIGATOR, ExecutionState.ACT_START, ...) as first statement
Start ==
  [events |-> <<"ACT_START">>, ops |-> <<>>, kind |-> "running",
   result |-> <<>>, error |-> NoError]

\* await of an operation on the page, the browser or a store: it is performed,
\* or it throws what the environment fails with
Do(r, env, op) ==
  IF r.kind # "running" THEN r
  ELSE IF env.failOp = op
    THEN [r EXCEPT !.kind = "throw", !.error = MkError(env.failName, "environment failure")]
  ELSE [r EXCEPT !.ops = Append(@, [op |-> op, onElement |-> FALSE, index |-> 0])]

\* await of an operation on the element of an index
DoOn(r, env, op, index) ==
  IF r.kind # "running" THEN r
  ELSE IF env.failOp = op
    THEN [r EXCEPT !.kind = "throw", !.error = MkError(env.failName, "environment failure")]
  ELSE [r EXCEPT !.ops = Append(@, [op |-> op, onElement |-> TRUE, index |-> index])]

\* emitEvent for each of the events, then return new ActionResult(params)
End(r, events, params) ==
  IF r.kind = "running"
    THEN [r EXCEPT !.kind = "return", !.events = @ \o events,
                   !.result = ActionResult(params)]
    ELSE r

\* emit ACT_OK and return the message as extractedContent, kept in memory
Ok(r, msg) == End(r, <<"ACT_OK">>, [extractedContent |-> msg, includeInMemory |-> TRUE])

Fail_WithContent(r, msg) ==
  End(r, <<"ACT_FAIL">>, [error |-> msg, extractedContent |-> msg, includeInMemory |-> TRUE])

\* emit ACT_FAIL and return the message as error, kept in memory
Fail(r, msg) == End(r, <<"ACT_FAIL">>, [error |-> msg, includeInMemory |-> TRUE])

\* throw error
ThrowIn(r, error) ==
  IF r.kind = "running" THEN [r EXCEPT !.kind = "throw", !.error = error] ELSE r

\* catch (error) { emit ACT_FAIL; return new ActionResult({ error: text of error }) }
CatchFail(r, prefix, includeInMemory) ==
  IF r.kind = "throw"
    THEN [r EXCEPT !.kind = "return", !.error = NoError,
                   !.events = Append(@, "ACT_FAIL"),
                   !.result = IF includeInMemory
                                THEN ActionResult([error |-> prefix \o r.error.message,
                                                   includeInMemory |-> TRUE])
                                ELSE ActionResult([error |-> prefix \o r.error.message])]
    ELSE r

\* state?.selectorMap.get(index) finds an element
HasElement(env, index) == index.t = "number" /\ index.x \in env.selectorMap

(***************************************************************************)
(* buildDefaultActions: the handlers that look at an element               *)
(***************************************************************************)
clickElement(input, env) ==
  LET looked == Do(Do(Start, env, "getCurrentPage"), env, "getState")
      clicked == Do(DoOn(looked, env, "clickElementNode", input["index"].x),
                    env, "waitForNewTab")
  IN  IF looked.kind # "running" THEN looked
      ELSE IF ~HasElement(env, input["index"])
        THEN ThrowIn(looked, MkError("Error", "act_errors_elementNotExist"))
      ELSE IF env.fileUploader
        THEN End(looked, <<>>,
                 [extractedContent |-> "act_click_fileUploader", includeInMemory |-> TRUE])
      ELSE CatchFail(Ok(IF env.newTab THEN Do(clicked, env, "switchTab") ELSE clicked,
                        "act_click_ok"),
                     "", FALSE)

inputText(input, env) ==
  LET looked == Do(Do(Start, env, "getCurrentPage"), env, "getState")
  IN  IF ~HasElement(env, input["index"])
        THEN ThrowIn(looked, MkError("Error", "act_errors_elementNotExist"))
        ELSE Ok(DoOn(looked, env, "inputTextElementNode", input["index"].x),
                "act_inputText_ok")

\* scrollToPercent, scrollToTop and scrollToBottom: the element is scrolled when
\* input.index is truthy, the page otherwise
ScrollElementOrPage(input, env, okMsg) ==
  LET page == Do(Start, env, "getCurrentPage")
  IN  IF Truthy(input["index"])
        THEN IF ~HasElement(env, input["index"])
               THEN Fail(Do(page, env, "getCachedState"), "act_errors_elementNotExist")
               ELSE Ok(DoOn(Do(page, env, "getCachedState"), env, "scrollToPercent",
                            input["index"].x), okMsg)
        ELSE Ok(Do(page, env, "scrollToPercent"), okMsg)

\* previousPage and nextPage: a failure of getElementScrollInfo is only logged
PageScroll(input, env, scrollOp, edgeMsg, pageEdgeMsg, okMsg) ==
  LET page == Do(Start, env, "getCurrentPage")
      state == Do(page, env, "getCachedState")
      info == IF env.failOp = "getElementScrollInfo" THEN state
              ELSE DoOn(state, env, "getElementScrollInfo", input["index"].x)
  IN  IF Truthy(input["index"])
        THEN IF ~HasElement(env, input["index"])
               THEN Fail(state, "act_errors_elementNotExist")
             ELSE IF env.atEdge /\ env.failOp # "getElementScrollInfo"
               THEN Ok(info, edgeMsg)
             ELSE Ok(DoOn(info, env, scrollOp, input["index"].x), okMsg)
        ELSE IF env.atEdge
               THEN Ok(Do(page, env, "getScrollInfo"), pageEdgeMsg)
               ELSE Ok(Do(Do(page, env, "getScrollInfo"), env, scrollOp), okMsg)

scrollToText(input, env) ==
  LET page == Do(Start, env, "getCurrentPage")
  IN  IF page.kind # "running" THEN page
      ELSE CatchFail(Ok(Do(page, env, "scrollToText"),
                        IF env.found THEN "act_scrollToText_ok"
                                     ELSE "act_scrollToText_notFound"),
                     "act_scrollToText_failed: ", TRUE)

getDropdownOptions(input, env) ==
  LET looked == Do(Do(Start, env, "getCurrentPage"), env, "getState")
  IN  IF looked.kind # "running" THEN looked
      ELSE IF ~HasElement(env, input["index"]) THEN Fail(looked, "act_errors_elementNotExist")
      ELSE CatchFail(Ok(DoOn(looked, env, "getDropdownOptions", input["index"].x),
                        IF env.hasOptions THEN "options"
                                          ELSE "act_getDropdownOptions_noOptions"),
                     "act_getDropdownOptions_failed: ", TRUE)

selectDropdownOption(input, env) ==
  LET looked == Do(Do(Start, env, "getCurrentPage"), env, "getState")
  IN  IF looked.kind # "running" THEN looked
      ELSE IF ~HasElement(env, input["index"]) THEN Fail(looked, "act_errors_elementNotExist")
      ELSE IF ~env.isSelect THEN Fail(looked, "act_selectDropdownOption_notSelect")
      ELSE CatchFail(Ok(DoOn(looked, env, "selectDropdownOption", input["index"].x),
                        "selected"),
                     "act_selectDropdownOption_failed: ", TRUE)

\* the loop of autoFillForm: a field without element is skipped, a field the
\* profile has a value for is typed into its element
RECURSIVE FillFields(_, _, _)
FillFields(fields, env, r) ==
  IF fields = <<>> THEN r
  ELSE IF Head(fields).index \in env.selectorMap /\ Head(fields).fieldType \in env.profile
    THEN FillFields(Tail(fields), env,
                    DoOn(r, env, "inputTextElementNode", Head(fields).index))
  ELSE FillFields(Tail(fields), env, r)

autoFillForm(input, env) ==
  LET filled == FillFields(input["fields"].x, env,
                  Do(Do(Do(Start, env, "getFormData"), env, "getCurrentPage"),
                     env, "getState"))
  IN  CatchFail(
        Ok(filled,
           IF \E i \in DOMAIN filled.ops : filled.ops[i].op = "inputTextElementNode"
             THEN "act_autoFill_ok" ELSE "act_autoFill_noData"),
        "act_autoFill_failed: ", TRUE)

\* userStore.getCredentialForSite: the first credential whose site contains the
\* asked site or is contained in it, letter case aside
RECURSIVE getCredentialForSite(_, _)
getCredentialForSite(credentials, site) ==
  IF credentials = <<>> THEN [found |-> FALSE, site |-> ""]
  ELSE IF \/ Includes(toLowerCase(Head(credentials)), toLowerCase(site))
          \/ Includes(toLowerCase(site), toLowerCase(Head(credentials)))
    THEN [found |-> TRUE, site |-> Head(credentials)]
  ELSE getCredentialForSite(Tail(credentials), site)

\* domain is input.site, else the host of the current url, else ''; each of the
\* two fills happens only when its element exists
useCredential(input, env) ==
  LET asked == Do(Do(Start, env, "getBrowserState"), env, "getCredentialForSite")
      looked == Do(Do(asked, env, "getCurrentPage"), env, "getState")
      user == IF HasElement(env, input["usernameIndex"])
                THEN DoOn(looked, env, "inputTextElementNode", input["usernameIndex"].x)
                ELSE looked
      pass == IF HasElement(env, input["passwordIndex"])
                THEN DoOn(user, env, "inputTextElementNode", input["passwordIndex"].x)
                ELSE user
  IN  CatchFail(
        IF getCredentialForSite(env.credentials,
             IF Truthy(input["site"]) THEN input["site"].x ELSE env.hostname).found
          THEN Ok(Do(pass, env, "updateCredential"), "act_useCredential_ok")
          ELSE Ok(asked, "act_useCredential_noCredential"),
        "act_useCredential_failed: ", TRUE)


(***************************************************************************)
(* The catalogue of buildDefaultActions and Action.call                    *)
(***************************************************************************)
\* the shape of each capability's input, as its handler reads it; any other name
\* stands for an action built on z.object({})
SchemaOf(name) ==
  CASE name = "done" -> <<Field("text", "string", FALSE), Field("success", "boolean", FALSE)>>
    [] name = "search_google" ->
         <<Field("intent", "string", TRUE),
           Field("query", "string", FALSE)>>
    [] name = "go_to_url" -> <<Field("intent", "string", TRUE), Field("url", "string", FALSE)>>
    [] name = "go_back" -> <<Field("intent", "string", TRUE)>>
    [] name = "wait" -> <<Field("intent", "string", TRUE), Field("seconds", "number", TRUE)>>
    [] name = "click_element" ->
         <<Field("intent", "string", TRUE),
           Field("index", "number", FALSE)>>
    [] name = "input_text" ->
         <<Field("intent", "string", TRUE),
           Field("index", "number", FALSE),
           Field("text", "string", FALSE)>>
    [] name = "switch_tab" ->
         <<Field("intent", "string", TRUE),
           Field("tab_id", "number", FALSE)>>
    [] name = "open_tab" -> <<Field("intent", "string", TRUE), Field("url", "string", FALSE)>>
    [] name = "close_tab" ->
         <<Field("intent", "string", TRUE),
           Field("tab_id", "number", FALSE)>>
    [] name = "cache_content" ->
         <<Field("intent", "string", TRUE),
           Field("content", "string", FALSE)>>
    [] name = "scroll_to_percent" ->
         <<Field("intent", "string", TRUE),
           Field("yPercent", "number", FALSE),
           Field("index", "number", TRUE)>>
    [] name = "scroll_to_top" ->
         <<Field("intent", "string", TRUE),
           Field("index", "number", TRUE)>>
    [] name = "scroll_to_bottom" ->
         <<Field("intent", "string", TRUE),
           Field("index", "number", TRUE)>>
    [] name = "previous_page" ->
         <<Field("intent", "string", TRUE),
           Field("index", "number", TRUE)>>
    [] name = "next_page" ->
         <<Field("intent", "string", TRUE),
           Field("index", "number", TRUE)>>
    [] name = "scroll_to_text" ->
         <<Field("intent", "string", TRUE),
           Field("text", "string", FALSE),
           Field("nth", "number", FALSE)>>
    [] name = "send_keys" ->
         <<Field("intent", "string", TRUE),
           Field("keys", "string", FALSE)>>
    [] name = "get_dropdown_options" ->
         <<Field("intent", "string", TRUE),
           Field("index", "number", FALSE)>>
    [] name = "select_dropdown_option" ->
         <<Field("intent", "string", TRUE),
           Field("index", "number", FALSE),
           Field("text", "string", FALSE)>>
    [] name = "auto_fill_form" ->
         <<Field("intent", "string", TRUE),
           Field("fields", "array", FALSE)>>
    [] name = "use_credential" ->
         <<Field("intent", "string", TRUE),
           Field("site", "string", TRUE),
           Field("usernameIndex", "number", TRUE),
           Field("passwordIndex", "number", TRUE)>>
    [] OTHER -> <<>>

\* the capabilities whose input names an element by index
IndexedNames ==
  {"click_element", "input_text", "scroll_to_percent", "scroll_to_top",
   "scroll_to_bottom", "previous_page", "next_page", "get_dropdown_options",
   "select_dropdown_option", "auto_fill_form", "use_credential"}

\* this.handler of the action of a name; the handler of the action built on
\* z.object({}) emits nothing and returns an empty result
HandlerOf(name, input, env) ==
  CASE name = "done" ->
         End(Start, <<"ACT_OK">>, [isDone |-> TRUE, extractedContent |-> input["text"].x])
    [] name = "search_google" -> Ok(Do(Start, env, "navigateTo"), "act_searchGoogle_ok")
    [] name = "go_to_url" -> Ok(Do(Start, env, "navigateTo"), "act_goToUrl_ok")
    [] name = "go_back" ->
         Ok(Do(Do(Start, env, "getCurrentPage"), env, "goBack"), "act_goBack_ok")
    [] name = "wait" -> Ok(Start, "act_wait_ok")
    [] name = "click_element" -> clickElement(input, env)
    [] name = "input_text" -> inputText(input, env)
    [] name = "switch_tab" -> Ok(Do(Start, env, "switchTab"), "act_switchTab_ok")
    [] name = "open_tab" -> Ok(Do(Start, env, "openTab"), "act_openTab_ok")
    [] name = "close_tab" -> Ok(Do(Start, env, "closeTab"), "act_closeTab_ok")
    [] name = "cache_content" -> Ok(Start, "untrusted: act_cache_ok")
    [] name = "scroll_to_percent" -> ScrollElementOrPage(input, env, "act_scrollToPercent_ok")
    [] name = "scroll_to_top" -> ScrollElementOrPage(input, env, "act_scrollToTop_ok")
    [] name = "scroll_to_bottom" -> ScrollElementOrPage(input, env, "act_scrollToBottom_ok")
    [] name = "previous_page" ->
         PageScroll(input, env, "scrollToPreviousPage", "act_errors_alreadyAtTop",
                    "act_errors_pageAlreadyAtTop", "act_previousPage_ok")
    [] name = "next_page" ->
         PageScroll(input, env, "scrollToNextPage", "act_errors_alreadyAtBottom",
                    "act_errors_pageAlreadyAtBottom", "act_nextPage_ok")
    [] name = "scroll_to_text" -> scrollToText(input, env)
    [] name = "send_keys" ->
         Ok(Do(Do(Start, env, "getCurrentPage"), env, "sendKeys"), "act_sendKeys_ok")
    [] name = "get_dropdown_options" -> getDropdownOptions(input, env)
    [] name = "select_dropdown_option" -> selectDropdownOption(input, env)
    [] name = "auto_fill_form" -> autoFillForm(input, env)
    [] name = "use_credential" -> useCredential(input, env)
    [] OTHER -> End([Start EXCEPT !.events = <<>>], <<>>, <<>>)

\* isEmptySchema that finds no schema empty
isEmptySchema_Never(schema) == FALSE

\* schema instanceof z.ZodObject && Object.keys(shape).length === 0
isEmptySchema(schema) == Len(schema) = 0

CallParsed_PlainError(name, env, parsed) ==
  IF ~parsed.success
    THEN [Start EXCEPT !.events = <<>>, !.kind = "throw", !.error = MkError("Error", "")]
           @@ [handlerCalls |-> 0, handlerInput |-> <<>>]
    ELSE HandlerOf(name, parsed.data, env) @@ [handlerCalls |-> 1, handlerInput |-> parsed.data]

\* Action.call after safeParse: InvalidInputError without the handler, or the
\* handler once on the parsed data
CallParsed(name, env, parsed) ==
  IF ~parsed.success
    THEN [Start EXCEPT !.events = <<>>, !.kind = "throw",
                       !.error = InvalidInputError(parsed.message)]
           @@ [handlerCalls |-> 0, handlerInput |-> <<>>]
    ELSE HandlerOf(name, parsed.data, env) @@ [handlerCalls |-> 1, handlerInput |-> parsed.data]

\* Action.call
ActionCall(name, input, env) ==
  IF isEmptySchema(SchemaOf(name))
    THEN HandlerOf(name, <<>>, env) @@ [handlerCalls |-> 1, handlerInput |-> <<>>]
    ELSE CallParsed(name, env, safeParse(SchemaOf(name), input))


(***************************************************************************)
(* Inputs and environments of a call                                       *)
(***************************************************************************)
\* what an input can have under the key of a field: nothing, a value of the
\* wrong type, or a value of the field's type
OptionsFor(field) ==
  IF field.key = "intent" THEN {Absent, Val("string", "why")}
  ELSE {Absent, IF field.type = "string" THEN Val("number", 7) ELSE Val("string", "x")}
    \cup
    CASE field.key \in {"index", "usernameIndex", "passwordIndex"} ->
           {Val("number", i) : i \in (0..MaxIndex)}
      [] field.key = "site" -> {Val("string", "example.com"), Val("string", "other.org")}
      [] field.type = "number" -> {Val("number", 1)}
      [] field.type = "string" -> {Val("string", "a")}
      [] field.type = "boolean" -> {Val("boolean", TRUE)}
      [] OTHER ->
           {Val("array", items) :
              items \in UNION {[1..n -> [index : (0..MaxIndex), fieldType : {"email", "nickname"}]] :
                                 n \in 0..2}}

\* the inputs a call is tried with: null, an object with an unknown key only,
\* and the objects over the keys of the shape
InputsOf(schema) ==
  {[isObject |-> FALSE, fields |-> <<>>],
   [isObject |-> TRUE, fields |-> [unknown |-> Val("number", 7)]]}
    \cup {[isObject |-> TRUE, fields |-> f] :
            f \in {g \in [{schema[i].key : i \in DOMAIN schema} ->
                            UNION {OptionsFor(schema[i]) : i \in DOMAIN schema}] :
                     \A i \in DOMAIN schema : g[schema[i].key] \in OptionsFor(schema[i])}}

\* the operations a handler awaits
OpsOf(name) ==
  CASE name \in {"search_google", "go_to_url"} -> {"navigateTo"}
    [] name = "go_back" -> {"getCurrentPage", "goBack"}
    [] name = "click_element" ->
         {"getCurrentPage", "getState", "clickElementNode", "waitForNewTab", "switchTab"}
    [] name = "input_text" -> {"getCurrentPage", "getState", "inputTextElementNode"}
    [] name = "switch_tab" -> {"switchTab"}
    [] name = "open_tab" -> {"openTab"}
    [] name = "close_tab" -> {"closeTab"}
    [] name \in {"scroll_to_percent", "scroll_to_top", "scroll_to_bottom"} ->
         {"getCurrentPage", "getCachedState", "scrollToPercent"}
    [] name = "previous_page" ->
         {"getCurrentPage", "getCachedState", "getElementScrollInfo", "getScrollInfo",
          "scrollToPreviousPage"}
    [] name = "next_page" ->
         {"getCurrentPage", "getCachedState", "getElementScrollInfo", "getScrollInfo",
          "scrollToNextPage"}
    [] name = "scroll_to_text" -> {"getCurrentPage", "scrollToText"}
    [] name = "send_keys" -> {"getCurrentPage", "sendKeys"}
    [] name = "get_dropdown_options" -> {"getCurrentPage", "getState", "getDropdownOptions"}
    [] name = "select_dropdown_option" ->
         {"getCurrentPage", "getState", "selectDropdownOption"}
    [] name = "auto_fill_form" ->
         {"getFormData", "getCurrentPage", "getState", "inputTextElementNode"}
    [] name = "use_credential" ->
         {"getBrowserState", "getCredentialForSite", "getCurrentPage", "getState",
          "inputTextElementNode", "updateCredential"}
    [] OTHER -> {}

\* the environments a call of a capability is tried in: the snapshot, the
\* operation that fails (with an ordinary Error or the cancellation of the task)
\* and the facts of the page and the stores the handler looks at
EnvsOf(name) ==
  {e \in [selectorMap : IF name \in IndexedNames THEN SUBSET (0..MaxIndex) ELSE {{}},
          failOp : OpsOf(name) \cup {"none"},
          failName : {"Error", "AbortError"},
          fileUploader : IF name = "click_element" THEN BOOLEAN ELSE {FALSE},
          newTab : IF name = "click_element" THEN BOOLEAN ELSE {FALSE},
          atEdge : IF name \in {"previous_page", "next_page"} THEN BOOLEAN ELSE {FALSE},
          found : IF name = "scroll_to_text" THEN BOOLEAN ELSE {TRUE},
          hasOptions : IF name = "get_dropdown_options" THEN BOOLEAN ELSE {TRUE},
          isSelect : IF name = "select_dropdown_option" THEN BOOLEAN ELSE {TRUE},
          profile : IF name = "auto_fill_form" THEN SUBSET {"email"} ELSE {{}},
          credentials : IF name = "use_credential"
                          THEN {<<>>, <<"Example.com">>, <<"bank.com", "example.com">>}
                          ELSE {<<>>},
          hostname : IF name = "use_credential" THEN {"", "example.com"} ELSE {""}] :
     e.failOp = "none" => e.failName = "Error"}

(***************************************************************************)
(* Calls of the actions                                                    *)
(***************************************************************************)
\* one Action.call from its start to its return or throw; a call keeps nothing
\* from the calls before it, so one call is followed from the state without any
Dispatch(name) ==
  /\ actionCall.kind = "none"
  /\ \E input \in InputsOf(SchemaOf(name)), env \in EnvsOf(name) :
       actionCall' = [name |-> name, input |-> input, env |-> env]
                       @@ ActionCall(name, input, env)
  /\ UNCHANGED <<config, sent, pc, signalAborted, modelCalls, call, outcome, invocations, pureCall,
               memory, now, memoryCall, profile, inFlight>>

\* one agent, no call made yet
ActInit ==
  /\ Init
  /\ modelName = "gpt-4o"
  /\ provider = "openai"
  /\ actions = <<[name |-> "go_to_url", valid |-> {"1"}]>>

ActNext ==
  \/ Dispatch("done")
  \/ Dispatch("search_google")
  \/ Dispatch("go_to_url")
  \/ Dispatch("go_back")
  \/ Dispatch("wait")
  \/ Dispatch("click_element")
  \/ Dispatch("input_text")
  \/ Dispatch("switch_tab")
  \/ Dispatch("open_tab")
  \/ Dispatch("close_tab")
  \/ Dispatch("cache_content")
  \/ Dispatch("scroll_to_percent")
  \/ Dispatch("scroll_to_top")
  \/ Dispatch("scroll_to_bottom")
  \/ Dispatch("previous_page")
  \/ Dispatch("next_page")
  \/ Dispatch("scroll_to_text")
  \/ Dispatch("send_keys")
  \/ Dispatch("get_dropdown_options")
  \/ Dispatch("select_dropdown_option")
  \/ Dispatch("auto_fill_form")
  \/ Dispatch("use_credential")
  \/ Dispatch("empty_schema_action")

ActSpec == ActInit /\ [][ActNext]_vars

(***************************************************************************)
(* Properties of Action.call and the handlers                              *)
(***************************************************************************)
\* C11 as stated: a call whose input fails the action's schema raises
\* InvalidInputError carrying the validator's rejection detail, and the handler
\* is not invoked: no event, no environment operation.
C11_InvalidInputRaises ==
  (/\ actionCall.kind # "none"
   /\ ~safeParse(SchemaOf(actionCall.name), actionCall.input).success)
  => /\ actionCall.kind = "throw"
     /\ actionCall.error.isError
     /\ actionCall.error.name = "InvalidInputError"
     /\ actionCall.error.message # ""
     /\ actionCall.error.message
          = safeParse(SchemaOf(actionCall.name), actionCall.input).message
     /\ actionCall.handlerCalls = 0
     /\ actionCall.events = <<>>
     /\ actionCall.ops = <<>>

\* C11 amended: the same for every action whose schema is not the empty object
\* schema; on the empty object schema the input is not validated at all.
C11_InvalidInputRaisesUnlessEmpty ==
  (actionCall.kind # "none" /\ ~isEmptySchema(SchemaOf(actionCall.name)))
    => C11_InvalidInputRaises

\* a click_element call without a number as index was rejected before the handler
C11_Witness ==
  /\ actionCall.kind = "throw"
  /\ actionCall.name = "click_element"
  /\ actionCall.input.isObject
  /\ ~safeParse(SchemaOf("click_element"), actionCall.input).success
  /\ actionCall.error.name = "InvalidInputError"
  /\ actionCall.handlerCalls = 0


\* C12 as stated: a failure inside a handler that is not a cancellation never
\* leaves Action.call as an exception, it comes back as a Result with error;
\* only a cancellation propagates.
C12_HandlerFailureBecomesResult ==
  (actionCall.kind = "throw" /\ actionCall.handlerCalls = 1)
    => actionCall.error.name = "AbortError"

\* C13 as stated: when a capability that names elements by index is called with
\* an index the snapshot does not have, the call ends in failure (an error
\* Result or an exception), acts on no element, and never reports success.
C13_MissingIndexFails ==
  LET data == actionCall.handlerInput
      named == {data[k].x : k \in {j \in DOMAIN data \cap {"index", "usernameIndex",
                                                            "passwordIndex"} :
                                     data[j].t = "number"}}
      listed == IF "fields" \in DOMAIN data
                  THEN {data["fields"].x[i].index : i \in DOMAIN data["fields"].x}
                  ELSE {}
  IN  (/\ actionCall.kind # "none"
       /\ actionCall.handlerCalls = 1
       /\ actionCall.name \in IndexedNames
       /\ (named \cup listed) \ actionCall.env.selectorMap # {})
      => /\ \/ actionCall.kind = "throw"
            \/ "error" \in DOMAIN actionCall.result
         /\ \A i \in DOMAIN actionCall.ops : ~actionCall.ops[i].onElement
         /\ "ACT_OK" \notin {actionCall.events[i] : i \in DOMAIN actionCall.events}

\* C14 as stated: a catalogue in which two capabilities have the same name is
\* never built: building it fails with DuplicateCapabilityError, so no agent has
\* a decision schema made from one, the second capability in place of the first.
C14_DuplicateNameRejected ==
  \A i, j \in DOMAIN actions : i # j => actions[i].name # actions[j].name

\* C15 as stated: a default handler emits ACT_START exactly once, before any
\* other event and before any environment operation, and on every exit path,
\* return or throw, exactly one terminal event (ACT_OK or ACT_FAIL) after it.
C15_StartThenOneTerminalEvent ==
  (/\ actionCall.kind # "none"
   /\ actionCall.handlerCalls = 1
   /\ ~isEmptySchema(SchemaOf(actionCall.name)))
  => /\ Len(actionCall.events) = 2
     /\ actionCall.events[1] = "ACT_START"
     /\ actionCall.events[2] \in {"ACT_OK", "ACT_FAIL"}

\* C16: a Result returned by a default handler has at most one of error and
\* extractedContent, and a Result with error is never isDone.
C16_ErrorExcludesContentAndDone ==
  (actionCall.kind = "return" /\ ~isEmptySchema(SchemaOf(actionCall.name)))
    => /\ ~("error" \in DOMAIN actionCall.result
            /\ "extractedContent" \in DOMAIN actionCall.result)
       /\ "error" \in DOMAIN actionCall.result => ~actionCall.result.isDone

\* a scroll of an element the snapshot does not have came back as an error Result
C16_Witness ==
  /\ actionCall.kind = "return"
  /\ actionCall.name = "scroll_to_top"
  /\ "error" \in DOMAIN actionCall.result
  /\ "extractedContent" \notin DOMAIN actionCall.result
  /\ ~actionCall.result.isDone


(***************************************************************************)
(* Pure functions: the planner's boolean fields and the error predicates   *)
(***************************************************************************)
\* String.prototype.trim
RECURSIVE trim(_)
trim(s) ==
  IF s = "" THEN s
  ELSE IF SubSeq(s, 1, 1) \in {" ", "\t", "\n"} THEN trim(SubSeq(s, 2, Len(s)))
  ELSE IF SubSeq(s, Len(s), Len(s)) \in {" ", "\t", "\n"} THEN trim(SubSeq(s, 1, Len(s) - 1))
  ELSE s

booleanStringSchema_DefaultFalse(val) ==
  IF val.t = "boolean" THEN [ok |-> TRUE, value |-> val.x]
  ELSE IF val.t # "string" THEN [ok |-> FALSE, value |-> FALSE]
  ELSE [ok |-> TRUE, value |-> trim(toLowerCase(val.x)) = "true"]

\* z.union([z.boolean(), z.string().transform(...)]): ok tells a parsed value
\* from a rejection
booleanStringSchema(val) ==
  IF val.t = "boolean" THEN [ok |-> TRUE, value |-> val.x]
  ELSE IF val.t # "string" THEN [ok |-> FALSE, value |-> FALSE]
  ELSE IF trim(toLowerCase(val.x)) = "true" THEN [ok |-> TRUE, value |-> TRUE]
  ELSE IF trim(toLowerCase(val.x)) = "false" THEN [ok |-> TRUE, value |-> FALSE]
  ELSE [ok |-> FALSE, value |-> FALSE]

\* a planner boolean field is parsed
ParseBoolean ==
  /\ pureCall.op = "none"
  /\ \E val \in {Absent, Val("number", 1), Val("boolean", TRUE), Val("boolean", FALSE)}
                 \cup {Val("string", t) :
                         t \in {"true", "false", "True", "TRUE", " true ", " false ", "FALSE\n",
                                "maybe", "", " ", "truee", "tr ue", "yes", "1", "false true"}} :
       pureCall' = [op |-> "booleanString", input |-> val, output |-> booleanStringSchema(val)]
  /\ UNCHANGED <<config, sent, pc, signalAborted, modelCalls, call, outcome, invocations, actionCall,
               memory, now, memoryCall, profile, inFlight>>

\* the five predicates are asked about a value: an Error with a name, a message
\* and maybe a status, a string, null, undefined, a number or a plain object
Classify ==
  /\ pureCall.op = "none"
  /\ \E error \in
         LET names == {"Error", "AuthenticationError", "BadRequestError", "AbortError",
                       "ChatModelAuthError", "ChatModelForbiddenError",
                       "ChatModelBadRequestError", "RequestCancelledError"}
             messages == {"", "some error", "Authentication failed", "Invalid API key",
                          "Request failed with status 401", "401 Unauthorized",
                          "403 Forbidden", "HTTP 403",
                          "status 400 BadRequest", "Invalid parameter", "Request Aborted",
                          "request aborted", "The operation was aborted",
                          "Cannot access a chrome-extension:// URL of different extension",
                          "cannot access a chrome-extension", "of different extension"}
         IN  {MkError(n, m) : n \in names, m \in messages}
               \cup {MkStatusError(n, m, st) :
                       n \in names, m \in messages, st \in {400, 401, 403}}
         \cup {MkNonError(t) :
                 t \in {"null", "undefined", "400", "some error", "authentication api key 401",
                        "forbidden 403", " 400 BadRequest", "Aborted", "aborted",
                        "Cannot access a chrome-extension of different extension",
                        "CANNOT ACCESS A CHROME-EXTENSION:// URL OF DIFFERENT EXTENSION",
                        "cannot access a chrome-extension", "of different extension"}}
         \cup {[MkNonError("[object Object]") EXCEPT !.hasStatus = TRUE, !.status = st] :
                 st \in {400, 401, 403}} :
       pureCall' = [op |-> "classify", input |-> error,
                    auth |-> isAuthenticationError(error),
                    forbidden |-> isForbiddenError(error),
                    badRequest |-> isBadRequestError(error),
                    aborted |-> isAbortedError(error),
                    conflict |-> isExtensionConflictError(error)]
  /\ UNCHANGED <<config, sent, pc, signalAborted, modelCalls, call, outcome, invocations, actionCall,
               memory, now, memoryCall, profile, inFlight>>

\* Action.getIndexArg: null unless the action has an index and the input is an
\* object with the key index
getIndexArg(hasIndex, input) ==
  IF ~hasIndex THEN Val("null", 0)
  ELSE IF input.isObject /\ "index" \in DOMAIN input.fields THEN input.fields.index
  ELSE Val("null", 0)

\* setIndexArg that does not ask whether the action has an index
setIndexArg_AnyAction(hasIndex, input, newIndex) ==
  IF input.isObject
    THEN [returned |-> TRUE,
          input |-> [input EXCEPT !.fields = [index |-> Val("number", newIndex)] @@ @]]
    ELSE [returned |-> FALSE, input |-> input]

\* Action.setIndexArg: what it returns and the input after the call
setIndexArg(hasIndex, input, newIndex) ==
  IF ~hasIndex THEN [returned |-> FALSE, input |-> input]
  ELSE IF input.isObject
    THEN [returned |-> TRUE,
          input |-> [input EXCEPT !.fields = [index |-> Val("number", newIndex)] @@ @]]
  ELSE [returned |-> FALSE, input |-> input]

\* setIndexArg and then getIndexArg on an input: null, or an object with or
\* without the key index
CallIndexArg ==
  /\ pureCall.op = "none"
  /\ \E hasIndex \in BOOLEAN, newIndex \in 0..(MaxIndex + 1),
        input \in {[isObject |-> FALSE, fields |-> <<>>]}
                  \cup {[isObject |-> TRUE, fields |-> f] :
                          f \in {<<>>,
                                 [intent |-> Val("string", "why")],
                                 [index |-> Val("number", 0)],
                                 [index |-> Val("number", 1), text |-> Val("string", "a"),
                                  intent |-> Val("string", "why")],
                                 [index |-> Val("string", "x"), xpath |-> Val("null", 0)]}} :
       LET set == setIndexArg(hasIndex, input, newIndex)
       IN  pureCall' = [op |-> "indexArg", hasIndex |-> hasIndex, input |-> input,
                        newIndex |-> newIndex,
                        before |-> getIndexArg(hasIndex, input),
                        returned |-> set.returned, after |-> set.input,
                        index |-> getIndexArg(hasIndex, set.input)]
  /\ UNCHANGED <<config, sent, pc, signalAborted, modelCalls, call, outcome, invocations, actionCall,
               memory, now, memoryCall, profile, inFlight>>

\* one call of supportsVision on an agent of some provider, chat model class
\* and model name
CallSupportsVision ==
  /\ pureCall.op = "none"
  /\ \E name \in {"gemini-2.5-flash", "gemini-2.5-pro", "gemini-2.5-flash-preview",
                   "gemini-1.5-flash", "gemini-pro", "gpt-4o", "GPT-5-mini",
                   "gpt-4-vision", "gpt-4-turbo", "gpt-3.5-turbo", "claude-3-opus",
                   "claude-4-sonnet", "claude-2", "Llama-4-Scout", "deepseek-reasoner", ""},
        prov \in {"gemini", "openai", "anthropic", "llama", "deepseek", "custom_openai", ""},
        library \in {"ChatGoogleGenerativeAI", "ChatOpenAI", "ChatAnthropic", "ChatOllama"} :
       pureCall' = [op |-> "supportsVision", modelName |-> name, provider |-> prov,
                    chatModelLibrary |-> library,
                    output |-> supportsVision(name, prov, library)]
  /\ UNCHANGED <<config, sent, pc, signalAborted, modelCalls, call, outcome, invocations, actionCall,
               memory, now, memoryCall, profile, inFlight>>

\* ---------------------------------------------------------------------------
\* Text to speech (part_000 300-406, voiceSettings.ts 18-48)
\* ---------------------------------------------------------------------------

DEFAULT_VOICE_SETTINGS ==
  [ttsEnabled |-> FALSE, ttsVoice |-> "", ttsRate |-> 10, ttsPitch |-> 10,
   liveVoiceEnabled |-> FALSE, wakeWord |-> "Hey Browser"]

\* {...DEFAULT_VOICE_SETTINGS, ...settings}: the stored fields win.
getSettings(stored) == stored @@ DEFAULT_VOICE_SETTINGS

\* voices.find(v => v.name === name); "" stands for undefined.
findVoice(voices, name) ==
  LET found == {i \in 1..Len(voices) : voices[i].name = name}
  IN  IF found = {} THEN ""
      ELSE voices[CHOOSE i \in found : \A j \in found : i <= j].name

getDefaultVoice(voices) ==
  LET english == {i \in 1..Len(voices) :
                    Len(voices[i].lang) >= 3 /\ SubSeq(voices[i].lang, 1, 3) = "en-"}
      englishDefault == {i \in english : voices[i].default}
      default == {i \in 1..Len(voices) : voices[i].default}
      First(found) == voices[CHOOSE i \in found : \A j \in found : i <= j].name
  IN  IF englishDefault # {} THEN First(englishDefault)
      ELSE IF english # {} THEN First(english)
      ELSE IF default # {} THEN First(default)
      ELSE IF voices # <<>> THEN voices[1].name
      ELSE ""

\* The speak of a service that does not read the ttsEnabled setting.
speak_IgnoreEnabled(hasSynth, voices, stored, text, options) ==
  IF ~hasSynth
    THEN [synthOps |-> <<>>, promise |-> "resolved"]
    ELSE [synthOps |-> <<[op |-> "cancel"], [op |-> "speak", text |-> text]>>,
          promise |-> "pending"]

\* TextToSpeechService.speak: the calls made on the synthesizer, in order, and
\* the state of the returned promise when speak has run ("pending": it settles
\* on the utterance's end or error event).  An option left out is "" (voiceName)
\* or 0 (rate, pitch); rates and pitches are in tenths.
speak(hasSynth, voices, stored, text, options) ==
  IF ~hasSynth
    THEN [synthOps |-> <<>>, promise |-> "resolved"]
    ELSE
      LET settings == getSettings(stored)
      IN  IF ~settings.ttsEnabled
            THEN [synthOps |-> <<>>, promise |-> "resolved"]
            ELSE
              LET voiceName == IF options.voiceName # "" THEN options.voiceName
                               ELSE settings.ttsVoice
                  voice == IF voiceName # "" THEN findVoice(voices, voiceName) ELSE ""
              IN  [synthOps |->
                     <<[op |-> "cancel"],
                       [op |-> "speak", text |-> text,
                        voice |-> IF voice # "" THEN voice ELSE getDefaultVoice(voices),
                        rate |-> IF options.rate # 0 THEN options.rate ELSE settings.ttsRate,
                        pitch |-> IF options.pitch # 0 THEN options.pitch
                                  ELSE settings.ttsPitch]>>,
                   promise |-> "pending"]

CallSpeak ==
  /\ pureCall.op = "none"
  /\ \E hasSynth \in BOOLEAN,
        voices \in {<<>>,
                    <<[name |-> "Amelie", lang |-> "fr-FR", default |-> TRUE],
                      [name |-> "Daniel", lang |-> "en-GB", default |-> FALSE]>>},
        stored \in {<<>>, [ttsEnabled |-> TRUE], [ttsEnabled |-> FALSE],
                    [ttsEnabled |-> TRUE, ttsVoice |-> "Amelie", ttsRate |-> 15]},
        text \in {"", "Task completed."},
        options \in {[voiceName |-> "", rate |-> 0, pitch |-> 0],
                     [voiceName |-> "Daniel", rate |-> 20, pitch |-> 5]} :
       pureCall' = [op |-> "speak", hasSynth |-> hasSynth, voices |-> voices,
                    stored |-> stored, text |-> text, options |-> options,
                    output |-> speak(hasSynth, voices, stored, text, options)]
  /\ UNCHANGED <<config, sent, pc, signalAborted, modelCalls, call, outcome, invocations, actionCall,
               memory, now, memoryCall, profile, inFlight>>

PureNext ==
  \/ ParseBoolean
  \/ Classify
  \/ CallSupportsVision
  \/ CallIndexArg
  \/ CallSpeak

PureSpec == ActInit /\ [][PureNext]_vars

\* C17: a planner boolean field accepts a boolean unchanged, turns a string into
\* true exactly when its trimmed lower-case form is "true" and into false
\* exactly when it is "false", and rejects every other string: none is taken
\* silently for a default.
C17_BooleanCoercion ==
  pureCall.op = "booleanString"
    => /\ pureCall.input.t = "boolean"
            => pureCall.output.ok /\ pureCall.output.value = pureCall.input.x
       /\ pureCall.input.t = "string"
            => /\ toLowerCase(trim(pureCall.input.x)) = "true"
                    <=> pureCall.output.ok /\ pureCall.output.value
               /\ toLowerCase(trim(pureCall.input.x)) = "false"
                    <=> pureCall.output.ok /\ ~pureCall.output.value
               /\ toLowerCase(trim(pureCall.input.x)) \notin {"true", "false"}
                    <=> ~pureCall.output.ok

\* a string that is neither spelling of a boolean was rejected
C17_Witness ==
  /\ pureCall.op = "booleanString"
  /\ pureCall.input = Val("string", "maybe")
  /\ ~pureCall.output.ok

\* C19 as stated: each of the five predicates returns false for every value that
\* is not an Error, whatever text the value has.
C19_NonErrorsRejected ==
  (pureCall.op = "classify" /\ ~pureCall.input.isError)
    => /\ ~pureCall.auth
       /\ ~pureCall.forbidden
       /\ ~pureCall.badRequest
       /\ ~pureCall.aborted
       /\ ~pureCall.conflict

\* C19 amended: the four predicates of authentication, forbidden, bad request
\* and aborted return false for every value that is not an Error; the extension
\* conflict predicate returns false for such a value unless its text has both
\* markers of an extension conflict.
C19_NonErrorsRejectedByFour ==
  (pureCall.op = "classify" /\ ~pureCall.input.isError)
    => /\ ~pureCall.auth
       /\ ~pureCall.forbidden
       /\ ~pureCall.badRequest
       /\ ~pureCall.aborted
       /\ pureCall.conflict
            => /\ Includes(toLowerCase(pureCall.input.message), "of different extension")
               /\ Includes(toLowerCase(pureCall.input.message),
                           "cannot access a chrome-extension")

\* the string "forbidden 403" was classified as nothing
C19_Witness ==
  /\ pureCall.op = "classify"
  /\ pureCall.input = MkNonError("forbidden 403")
  /\ ~pureCall.forbidden
  /\ ~pureCall.auth

C21_AuthenticationExactly ==
  (pureCall.op = "classify" /\ pureCall.input.isError)
    => (pureCall.auth
          <=> \/ pureCall.input.name = "AuthenticationError"
              \/ pureCall.input.hasStatus /\ pureCall.input.status = 401
              \/ Includes(toLowerCase(pureCall.input.message), "authentication")
              \/ Includes(toLowerCase(pureCall.input.message), "api key")
              \/ Includes(pureCall.input.message, " 401"))

\* an Error with a plain name and message was accepted for its status 401 alone
C21_Witness ==
  /\ pureCall.op = "classify"
  /\ pureCall.input = MkStatusError("Error", "some error", 401)
  /\ pureCall.auth

\* C22: for an Error, isAbortedError is true when its name is AbortError and
\* when its message contains "aborted" in any letter case, and false when it
\* has neither.
C22_AbortedAnyCase ==
  (pureCall.op = "classify" /\ pureCall.input.isError)
    => (pureCall.aborted
          <=> \/ pureCall.input.name = "AbortError"
              \/ Includes(toLowerCase(pureCall.input.message), "aborted"))

\* C23: a custom error is classified by its kind whatever its message: the
\* authentication, forbidden, bad request and aborted predicates accept
\* ChatModelAuthError, ChatModelForbiddenError, ChatModelBadRequestError and
\* RequestCancelledError of every message, and each carries its class name.
C23_CustomErrorsClassifiedByKind ==
  pureCall.op = "classify"
    => /\ pureCall.input = ChatModelAuthError(pureCall.input.message)
            => pureCall.auth /\ pureCall.input.name = "ChatModelAuthError"
       /\ pureCall.input = ChatModelForbiddenError(pureCall.input.message)
            => pureCall.forbidden /\ pureCall.input.name = "ChatModelForbiddenError"
       /\ pureCall.input = ChatModelBadRequestError(pureCall.input.message)
            => pureCall.badRequest /\ pureCall.input.name = "ChatModelBadRequestError"
       /\ pureCall.input = RequestCancelledError(pureCall.input.message)
            => pureCall.aborted /\ pureCall.input.name = "RequestCancelledError"

\* C24 as stated: supportsVision is true only when the provider and the model
\* name match a positive rule (Gemini: no "preview", and "flash" or "pro" with
\* "2."; OpenAI: "gpt-4o", "gpt-5", "vision" or "gpt-4-turbo"; Anthropic:
\* "claude-3" or "claude-4"); every other provider and name, every unknown
\* provider included, gives false.
C24_VisionByProviderRule ==
  pureCall.op = "supportsVision"
    => LET lower == toLowerCase(pureCall.modelName)
       IN  pureCall.output
             => \/ /\ pureCall.provider = "gemini"
                   /\ ~Includes(lower, "preview")
                   /\ Includes(lower, "2.")
                   /\ Includes(lower, "flash") \/ Includes(lower, "pro")
                \/ /\ pureCall.provider = "openai"
                   /\ \E m \in {"gpt-4o", "gpt-5", "vision", "gpt-4-turbo"} :
                        Includes(lower, m)
                \/ /\ pureCall.provider = "anthropic"
                   /\ Includes(lower, "claude-3") \/ Includes(lower, "claude-4")

\* C24 amended: the family of an agent is Gemini when its provider is Gemini or
\* its chat model class is ChatGoogleGenerativeAI, else OpenAI when its provider
\* is OpenAI or its class is ChatOpenAI, else Anthropic when its provider is
\* Anthropic or its class is ChatAnthropic; supportsVision is true exactly when
\* the model name matches a positive rule of that family, and false for every
\* agent of no family and for every preview model of the Gemini family.
C24_VisionByFamilyRule ==
  pureCall.op = "supportsVision"
    => LET lower == toLowerCase(pureCall.modelName)
           family ==
             CASE pureCall.provider = "gemini"
                    \/ pureCall.chatModelLibrary = "ChatGoogleGenerativeAI" -> "gemini"
               [] pureCall.provider # "gemini"
                    /\ pureCall.chatModelLibrary # "ChatGoogleGenerativeAI"
                    /\ (pureCall.provider = "openai"
                          \/ pureCall.chatModelLibrary = "ChatOpenAI") -> "openai"
               [] pureCall.provider \notin {"gemini", "openai"}
                    /\ pureCall.chatModelLibrary
                          \notin {"ChatGoogleGenerativeAI", "ChatOpenAI"}
                    /\ (pureCall.provider = "anthropic"
                          \/ pureCall.chatModelLibrary = "ChatAnthropic") -> "anthropic"
               [] OTHER -> "none"
       IN  pureCall.output
             <=> \/ /\ family = "gemini"
                    /\ ~Includes(lower, "preview")
                    /\ Includes(lower, "2.")
                    /\ Includes(lower, "flash") \/ Includes(lower, "pro")
                 \/ /\ family = "openai"
                    /\ \E m \in {"gpt-4o", "gpt-5", "vision", "gpt-4-turbo"} :
                         Includes(lower, m)
                 \/ /\ family = "anthropic"
                    /\ Includes(lower, "claude-3") \/ Includes(lower, "claude-4")

\* an agent of an unknown provider whose chat model class is ChatOpenAI was
\* given vision for the model gpt-4o
C24_Witness ==
  /\ pureCall.op = "supportsVision"
  /\ pureCall.provider = "custom_openai"
  /\ pureCall.chatModelLibrary = "ChatOpenAI"
  /\ pureCall.modelName = "gpt-4o"
  /\ pureCall.output

C26_PathFixedAtConstruction ==
  /\ [](LET disabled ==
              \/ modelName \in {"deepseek-reasoner", "deepseek-r1"}
              \/ provider = "llama"
              \/ \E m \in {"Llama-4", "Llama-3.3", "llama-3.3"} : Includes(modelName, m)
        IN  /\ withStructuredOutput <=> ~disabled
            /\ pc = "manualCall" => disabled
            /\ pc = "structuredCall" => ~disabled)
  /\ [][withStructuredOutput' = withStructuredOutput]_vars

\* the second invocation of an agent for deepseek-r1 with provider openai is on
\* the manual path
C26_Witness ==
  /\ pc = "manualCall"
  /\ invocations = 2
  /\ modelName = "deepseek-r1"
  /\ provider = "openai"

\* C27: for an action with a positional target and an object input,
\* setIndexArg(input, n) returns true, a following getIndexArg(input) returns n
\* and every other field of the input is as before; for an action without a
\* positional target getIndexArg returns null, setIndexArg returns false and
\* the input is left unchanged.
C27_IndexArgRoundTrip ==
  pureCall.op = "indexArg"
    => /\ (pureCall.hasIndex /\ pureCall.input.isObject)
            => /\ pureCall.returned
               /\ pureCall.index = Val("number", pureCall.newIndex)
               /\ DOMAIN pureCall.after.fields = DOMAIN pureCall.input.fields \cup {"index"}
               /\ \A key \in DOMAIN pureCall.input.fields \ {"index"} :
                    pureCall.after.fields[key] = pureCall.input.fields[key]
       /\ ~pureCall.hasIndex
            => /\ pureCall.before = Val("null", 0)
               /\ pureCall.index = Val("null", 0)
               /\ ~pureCall.returned
               /\ pureCall.after = pureCall.input

\* the index of an object with two more fields was replaced by 2
C27_Witness ==
  /\ pureCall.op = "indexArg"
  /\ pureCall.hasIndex
  /\ pureCall.input.fields = [index |-> Val("number", 1), text |-> Val("string", "a"),
                              intent |-> Val("string", "why")]
  /\ pureCall.after.fields = [index |-> Val("number", 2), text |-> Val("string", "a"),
                              intent |-> Val("string", "why")]
  /\ pureCall.index = Val("number", 2)

(***************************************************************************)
(* memoryStore: one action per operation.  A call reads the memory from    *)
(* storage and writes it back before the next call starts.                 *)
(***************************************************************************)
AddPattern ==
  /\ memoryCall.calls < MaxCalls
  /\ \E time \in {now, now + 1},
        pattern \in {[domain |-> k[1], taskType |-> k[2], description |-> k[3],
                      lastUsed |-> 0] :
                       k \in {<<"a.com", "login", "form">>, <<"a.com", "login", "button">>,
                              <<"b.org", "search", "form">>}} :
       /\ time <= MaxClock
       /\ now' = time
       /\ memory' = addPattern(memory, pattern, time)
       /\ memoryCall' = [op |-> "addPattern", arg |-> pattern,
                         count |-> Len(memory.patterns), calls |-> memoryCall.calls + 1]
  /\ UNCHANGED <<config, sent, pc, signalAborted, modelCalls, call, outcome, invocations,
               actionCall, pureCall, profile, inFlight>>

UpdatePatternSuccess ==
  /\ memoryCall.calls < MaxCalls
  /\ \E time \in {now, now + 1}, id \in 1..(Len(memory.patterns) + 1) :
       LET found == {i \in 1..Len(memory.patterns) : memory.patterns[i].id = id}
       IN  /\ time <= MaxClock
           /\ IF found # {}
                THEN LET patternIndex == CHOOSE i \in found : \A j \in found : i <= j
                     IN  /\ memory' = [memory EXCEPT
                                         !.patterns[patternIndex].successCount = @ + 1,
                                         !.patterns[patternIndex].lastUsed = time]
                         /\ now' = time
                ELSE UNCHANGED <<memory, now>>
           /\ memoryCall' = [op |-> "updatePatternSuccess", arg |-> id,
                             count |-> Len(memory.patterns), calls |-> memoryCall.calls + 1]
  /\ UNCHANGED <<config, sent, pc, signalAborted, modelCalls, call, outcome, invocations,
               actionCall, pureCall, profile, inFlight>>

RemovePattern ==
  /\ memoryCall.calls < MaxCalls
  /\ \E id \in 1..(Len(memory.patterns) + 1) :
       /\ memory' = [memory EXCEPT
                       !.patterns = SelectSeq(@, LAMBDA p : p.id # id)]
       /\ memoryCall' = [op |-> "removePattern", arg |-> id,
                         count |-> Len(memory.patterns), calls |-> memoryCall.calls + 1]
  /\ UNCHANGED now
  /\ UNCHANGED <<config, sent, pc, signalAborted, modelCalls, call, outcome, invocations,
               actionCall, pureCall, profile, inFlight>>

SetPreference ==
  /\ memoryCall.calls < MaxCalls
  /\ \E time \in {now, now + 1}, key \in {"language", "theme"} :
       LET newPref == [key |-> key, value |-> "en", lastUpdated |-> time]
           found == {i \in 1..Len(memory.preferences) : memory.preferences[i].key = key}
           preferences ==
             IF found # {}
               THEN [memory.preferences EXCEPT
                       ![CHOOSE i \in found : \A j \in found : i <= j] = newPref]
               ELSE Append(memory.preferences, newPref)
       IN  /\ time <= MaxClock
           /\ now' = time
           /\ memory' = [memory EXCEPT !.preferences =
                           IF Len(preferences) > memory.settings.maxPreferences
                             THEN SubSeq(SortNewestFirst(preferences,
                                           [i \in 1..Len(preferences) |->
                                              preferences[i].lastUpdated]),
                                         1, memory.settings.maxPreferences)
                             ELSE preferences]
           /\ memoryCall' = [op |-> "setPreference", arg |-> key,
                             count |-> Len(memory.patterns), calls |-> memoryCall.calls + 1]
  /\ UNCHANGED <<config, sent, pc, signalAborted, modelCalls, call, outcome, invocations,
               actionCall, pureCall, profile, inFlight>>

RemovePreference ==
  /\ memoryCall.calls < MaxCalls
  /\ \E key \in {"language", "theme"} :
       /\ memory' = [memory EXCEPT
                       !.preferences = SelectSeq(@, LAMBDA q : q.key # key)]
       /\ memoryCall' = [op |-> "removePreference", arg |-> key,
                         count |-> Len(memory.patterns), calls |-> memoryCall.calls + 1]
  /\ UNCHANGED now
  /\ UNCHANGED <<config, sent, pc, signalAborted, modelCalls, call, outcome, invocations,
               actionCall, pureCall, profile, inFlight>>

\* updateSettings with one key, or with all three as the options page does
UpdateSettings ==
  /\ memoryCall.calls < MaxCalls
  /\ \E settings \in {[enabled |-> FALSE], [maxPatterns |-> 1], [maxPatterns |-> 2],
                       [maxPreferences |-> 1],
                       [enabled |-> TRUE, maxPatterns |-> 100, maxPreferences |-> 50]} :
       /\ memory' = updateSettings(memory, settings)
       /\ memoryCall' = [op |-> "updateSettings", arg |-> settings,
                         count |-> Len(memory.patterns), calls |-> memoryCall.calls + 1]
  /\ UNCHANGED now
  /\ UNCHANGED <<config, sent, pc, signalAborted, modelCalls, call, outcome, invocations,
               actionCall, pureCall, profile, inFlight>>

ClearMemory ==
  /\ memoryCall.calls < MaxCalls
  /\ memory' = [settings |-> memory.settings, patterns |-> <<>>, preferences |-> <<>>]
  /\ memoryCall' = [op |-> "clearMemory", arg |-> "", count |-> Len(memory.patterns), calls |-> memoryCall.calls + 1]
  /\ UNCHANGED now
  /\ UNCHANGED <<config, sent, pc, signalAborted, modelCalls, call, outcome, invocations,
               actionCall, pureCall, profile, inFlight>>

MemNext ==
  \/ AddPattern
  \/ UpdatePatternSuccess
  \/ RemovePattern
  \/ SetPreference
  \/ RemovePreference
  \/ UpdateSettings
  \/ ClearMemory

MemSpec == ActInit /\ [][MemNext]_vars

\* C28: after an addPattern call for a pattern that was not stored, the number
\* of stored patterns is at most settings.maxPatterns, and every pattern kept
\* has a lastUsed greater than or equal to that of every pattern dropped.
C28_LimitDropsOldest ==
  [][(/\ memoryCall'.op = "addPattern"
      /\ \A i \in 1..Len(memory.patterns) :
           \/ memory.patterns[i].domain # memoryCall'.arg.domain
           \/ memory.patterns[i].taskType # memoryCall'.arg.taskType
           \/ memory.patterns[i].description # memoryCall'.arg.description)
       => /\ Len(memory'.patterns) <= memory.settings.maxPatterns
          /\ \A r \in 1..Len(memory'.patterns) :
               /\ \A d \in 1..Len(memory.patterns) :
                    (\A k \in 1..Len(memory'.patterns) :
                       memory'.patterns[k].id # memory.patterns[d].id)
                      => memory'.patterns[r].lastUsed >= memory.patterns[d].lastUsed
               /\ (\A k \in 1..Len(memory'.patterns) :
                      \/ memory'.patterns[k].domain # memoryCall'.arg.domain
                      \/ memory'.patterns[k].taskType # memoryCall'.arg.taskType
                      \/ memory'.patterns[k].description # memoryCall'.arg.description)
                    => memory'.patterns[r].lastUsed >= now']_vars

\* a store of two patterns with maxPatterns 2 took a new pattern and holds two
C28_Witness ==
  /\ memoryCall.op = "addPattern"
  /\ memoryCall.count = 2
  /\ memory.settings.maxPatterns = 2
  /\ Len(memory.patterns) = 2
  /\ \E i \in 1..Len(memory.patterns) :
       /\ memory.patterns[i].domain = memoryCall.arg.domain
       /\ memory.patterns[i].taskType = memoryCall.arg.taskType
       /\ memory.patterns[i].description = memoryCall.arg.description
       /\ memory.patterns[i].successCount = 1

\* C29: after any sequence of addPattern, updatePatternSuccess, removePattern
\* and clearMemory calls no two stored patterns have the same domain, taskType
\* and description; adding a pattern that is stored leaves the number of
\* patterns unchanged and raises the successCount of that pattern by exactly 1.
C29_NoDuplicatePatterns ==
  /\ [](\A i, j \in 1..Len(memory.patterns) :
          (/\ memory.patterns[i].domain = memory.patterns[j].domain
           /\ memory.patterns[i].taskType = memory.patterns[j].taskType
           /\ memory.patterns[i].description = memory.patterns[j].description)
            => i = j)
  /\ [][memoryCall'.op = "addPattern"
          => \A i \in 1..Len(memory.patterns) :
               (/\ memory.patterns[i].domain = memoryCall'.arg.domain
                /\ memory.patterns[i].taskType = memoryCall'.arg.taskType
                /\ memory.patterns[i].description = memoryCall'.arg.description)
                 => /\ Len(memory'.patterns) = Len(memory.patterns)
                    /\ memory'.patterns[i].id = memory.patterns[i].id
                    /\ memory'.patterns[i].successCount
                         = memory.patterns[i].successCount + 1]_vars

\* a stored pattern was added again: one pattern, used twice
C29_Witness ==
  /\ memoryCall.op = "addPattern"
  /\ memoryCall.count = 1
  /\ Len(memory.patterns) = 1
  /\ memory.patterns[1].successCount = 2
  /\ memory.patterns[1].description = memoryCall.arg.description

\* C30: clearMemory empties the patterns and the preferences and leaves the
\* settings as they were; updateSettings changes the supplied keys of the
\* settings only and leaves the patterns and the preferences unchanged.
C30_ClearAndSettingsFrame ==
  [][/\ memoryCall'.op = "clearMemory"
          => /\ memory'.patterns = <<>>
             /\ memory'.preferences = <<>>
             /\ memory'.settings = memory.settings
     /\ memoryCall'.op = "updateSettings"
          => /\ memory'.patterns = memory.patterns
             /\ memory'.preferences = memory.preferences
             /\ \A key \in {"enabled", "maxPatterns", "maxPreferences"} :
                  memory'.settings[key] = IF key \in DOMAIN memoryCall'.arg
                                            THEN memoryCall'.arg[key]
                                            ELSE memory.settings[key]]_vars

\* a store with a pattern and a lowered limit was cleared: the
\* limit is still there
C30_Witness ==
  /\ memoryCall.op = "clearMemory"
  /\ memoryCall.count = 1
  /\ memory.patterns = <<>>
  /\ memory.preferences = <<>>
  /\ memory.settings = [enabled |-> TRUE, maxPatterns |-> 1, maxPreferences |-> 50]

\* C32: for an action whose input schema is the empty object schema,
\* Action.call ignores its input: for every input, null and ill-typed values
\* included, it calls the handler exactly once with an empty object and never
\* raises InvalidInputError.
C32_EmptySchemaIgnoresInput ==
  (actionCall.kind # "none" /\ SchemaOf(actionCall.name) = <<>>)
    => /\ actionCall.handlerCalls = 1
       /\ actionCall.handlerInput = <<>>
       /\ ~(actionCall.kind = "throw" /\ actionCall.error.name = "InvalidInputError")

\* the action of the empty schema was called with null and its handler ran
C32_Witness ==
  /\ actionCall.kind = "return"
  /\ actionCall.name = "empty_schema_action"
  /\ ~actionCall.input.isObject
  /\ actionCall.handlerCalls = 1

\* C38: use_credential types a stored credential into the page only if the
\* site of that credential matches the requested site or, when none is given,
\* the hostname of the current page; when no domain can be determined (no site
\* in the input, no hostname from the current url) no credential is typed and
\* no credential's lastUsed is updated.
C38_CredentialOnlyForMatchingSite ==
  (/\ actionCall.kind # "none"
   /\ actionCall.name = "use_credential"
   /\ actionCall.handlerCalls = 1
   /\ \E i \in DOMAIN actionCall.ops :
        actionCall.ops[i].op \in {"inputTextElementNode", "updateCredential"})
    => LET site == actionCall.handlerInput["site"]
           domain == IF Truthy(site) THEN site.x ELSE actionCall.env.hostname
       IN  /\ domain # ""
           /\ \E i \in DOMAIN actionCall.env.credentials :
                \/ Includes(toLowerCase(actionCall.env.credentials[i]), toLowerCase(domain))
                \/ Includes(toLowerCase(domain), toLowerCase(actionCall.env.credentials[i]))

\* C39: for scroll_to_percent, scroll_to_top, scroll_to_bottom, previous_page
\* and next_page, whenever the input supplies an index, index 0 included, the
\* scroll is applied to the element of that index, or the call ends in an error
\* Result when the snapshot has no such element; the whole page is scrolled
\* only when no index is supplied.
C39_IndexedScrollActsOnElement ==
  (/\ actionCall.kind # "none"
   /\ actionCall.name \in {"scroll_to_percent", "scroll_to_top", "scroll_to_bottom",
                            "previous_page", "next_page"}
   /\ actionCall.handlerCalls = 1
   /\ actionCall.env.failOp = "none"
   /\ actionCall.handlerInput["index"].t = "number")
    => LET index == actionCall.handlerInput["index"].x
           scrolls == {i \in DOMAIN actionCall.ops :
                         actionCall.ops[i].op \in {"scrollToPercent", "scrollToPreviousPage",
                                                   "scrollToNextPage"}}
       IN  /\ \A i \in scrolls :
                actionCall.ops[i].onElement /\ actionCall.ops[i].index = index
           /\ \A i \in DOMAIN actionCall.ops : actionCall.ops[i].op # "getScrollInfo"
           /\ index \notin actionCall.env.selectorMap
                => "error" \in DOMAIN actionCall.result
           /\ (index \in actionCall.env.selectorMap /\ ~actionCall.env.atEdge)
                => scrolls # {}

\* C33: classification survives the re-raise of invoke: when the model call
\* fails with an error that isAuthenticationError, isForbiddenError or
\* isBadRequestError accepts (by name, by status or by message), the error
\* that invoke raises is accepted by the same predicate, on the structured
\* path and on the manual path.
C33_ClassificationSurvivesReraise ==
  (pc = "done" /\ call.type = "throw" /\ outcome.type = "throw")
    => /\ isAuthenticationError(call.error) => isAuthenticationError(outcome.error)
       /\ isForbiddenError(call.error) => isForbiddenError(outcome.error)
       /\ isBadRequestError(call.error) => isBadRequestError(outcome.error)

\* C34: a pattern newly inserted by addPattern is stored when addPattern
\* completes, also when the store was at maxPatterns and when stored patterns
\* have the same lastUsed as the new one: the new pattern is never the one
\* dropped.
C34_NewPatternKept ==
  [][memoryCall'.op = "addPattern"
       => \E i \in 1..Len(memory'.patterns) :
            /\ memory'.patterns[i].domain = memoryCall'.arg.domain
            /\ memory'.patterns[i].taskType = memoryCall'.arg.taskType
            /\ memory'.patterns[i].description = memoryCall'.arg.description]_vars

\* C35: in every state reached by memoryStore calls the number of stored
\* patterns is at most settings.maxPatterns and the number of stored
\* preferences is at most settings.maxPreferences, also right after
\* updateSettings lowers a limit.
C35_CountsWithinLimits ==
  /\ Len(memory.patterns) <= memory.settings.maxPatterns
  /\ Len(memory.preferences) <= memory.settings.maxPreferences

(***************************************************************************)
(* Store calls in flight                                                   *)
(*                                                                         *)
(* addPattern, addCredential and getUserId await storage.get() and         *)
(* storage.set(): between two awaits of one call another call can run.     *)
(* storage.get() gives the value stored at that moment, storage.set(v)     *)
(* replaces it.  Each caller makes one call; the pattern, the site and the *)
(* fresh id of a caller are its own.                                       *)
(***************************************************************************)
\* a caller starts addPattern, addCredential or getUserId
Call(caller) ==
  /\ inFlight[caller].pc = "idle"
  /\ \E op \in {"addPattern", "addCredential", "getUserId"} :
       inFlight' = [inFlight EXCEPT ![caller] =
                      [@ EXCEPT !.op = op, !.pc = "get",
                                !.arg = CASE op = "addPattern" ->
                                               [domain |-> "a.com", taskType |-> "login",
                                                description |-> <<"form", "button", "link",
                                                                  "menu">>[caller],
                                                lastUsed |-> 0]
                                          [] op = "addCredential" ->
                                               [id |-> caller,
                                                site |-> <<"a.com", "b.org", "c.net",
                                                           "d.io">>[caller]]
                                          [] OTHER ->
                                               <<"uuid-1", "uuid-2", "uuid-3",
                                                 "uuid-4">>[caller]]]
  /\ UNCHANGED <<memory, now, profile>>
  /\ UNCHANGED <<config, sent, pc, signalAborted, modelCalls, call, outcome, invocations,
               actionCall, pureCall, memoryCall>>

\* the first await of a call: storage.get() of addPattern, getProfile() of
\* addCredential and getUserId; getUserId returns a stored id at once
Get(caller) ==
  /\ inFlight[caller].pc = "get"
  /\ inFlight' = [inFlight EXCEPT ![caller] =
                    CASE @.op = "addPattern" -> [@ EXCEPT !.read = memory, !.pc = "set"]
                      [] @.op = "addCredential" ->
                           [@ EXCEPT !.read = profile, !.pc = "updateProfile"]
                      [] OTHER ->
                           IF profile.userId = "" \/ profile.userId = "unknown"
                             THEN [@ EXCEPT !.read = profile, !.pc = "updateProfile"]
                             ELSE [@ EXCEPT !.read = profile, !.pc = "done",
                                            !.returned = profile.userId]]
  /\ UNCHANGED <<memory, now, profile>>
  /\ UNCHANGED <<config, sent, pc, signalAborted, modelCalls, call, outcome, invocations,
               actionCall, pureCall, memoryCall>>

\* updateProfile of addCredential and getUserId: storage.get(), then
\* storage.set() of the profile read here with the key given
UpdateProfile(caller) ==
  /\ inFlight[caller].pc \in {"updateProfile", "updateProfileSet"}
  /\ LET c == inFlight[caller]
     IN  IF c.pc = "updateProfile"
           THEN /\ inFlight' = [inFlight EXCEPT
                                  ![caller] =
                                    [c EXCEPT !.pc = "updateProfileSet",
                                              !.arg = IF c.op = "addCredential"
                                                        THEN [credentials |->
                                                                Append(c.read.credentials,
                                                                       c.arg)]
                                                        ELSE [userId |-> c.arg],
                                              !.returned = IF c.op = "getUserId"
                                                             THEN c.arg ELSE "",
                                              !.read = profile]]
                /\ UNCHANGED profile
           ELSE /\ profile' = c.arg @@ c.read
                /\ inFlight' = [inFlight EXCEPT ![caller].pc = "done"]
  /\ UNCHANGED <<memory, now>>
  /\ UNCHANGED <<config, sent, pc, signalAborted, modelCalls, call, outcome, invocations,
               actionCall, pureCall, memoryCall>>

\* the storage.set() of addPattern, on the memory the call has read
Set(caller) ==
  /\ inFlight[caller].pc = "set"
  /\ \E time \in {now, now + 1} :
       /\ time <= MaxClock
       /\ now' = time
       /\ memory' = addPattern(inFlight[caller].read, inFlight[caller].arg, time)
  /\ inFlight' = [inFlight EXCEPT ![caller].pc = "done"]
  /\ UNCHANGED profile
  /\ UNCHANGED <<config, sent, pc, signalAborted, modelCalls, call, outcome, invocations,
               actionCall, pureCall, memoryCall>>

RaceNext ==
  \E caller \in 1..MaxCallers :
    \/ Call(caller)
    \/ Get(caller)
    \/ UpdateProfile(caller)
    \/ Set(caller)

RaceSpec == ActInit /\ [][RaceNext]_vars

\* C36: no update is lost when store calls overlap: when addPattern calls for
\* different patterns, or addCredential calls, are in flight together and
\* interleave at their storage reads and writes, every new entry is stored
\* once the calls have completed.
C36_NoLostUpdate ==
  (\A caller \in 1..MaxCallers : inFlight[caller].pc = "done")
    => /\ \A caller \in 1..MaxCallers :
            inFlight[caller].op = "addPattern"
              => \E i \in 1..Len(memory.patterns) :
                   memory.patterns[i].description = inFlight[caller].arg.description
       /\ (\A caller \in 1..MaxCallers : inFlight[caller].op = "addCredential")
            => \A caller \in 1..MaxCallers :
                 \E i \in 1..Len(profile.credentials) :
                   profile.credentials[i].id = caller

\* C37: the user id is assigned once: for every sequence and interleaving of
\* getUserId calls from the default profile all calls return the same id, that
\* id is the one in storage, and once an id other than 'unknown' is stored no
\* call writes another.
C37_UserIdAssignedOnce ==
  /\ []((\A caller \in 1..MaxCallers :
           inFlight[caller].op = "getUserId" /\ inFlight[caller].pc = "done")
          => \A caller \in 1..MaxCallers : inFlight[caller].returned = profile.userId)
  /\ [][\A caller \in 1..MaxCallers :
          (/\ inFlight[caller].op = "getUserId"
           /\ inFlight[caller].pc = "updateProfileSet"
           /\ inFlight'[caller].pc = "done")
            => profile.userId = "unknown"]_vars

\* C31: TextToSpeechService.speak touches the synthesizer only when synthesis is
\* available and the stored ttsEnabled setting is true: otherwise it makes no
\* call on the synthesizer (no cancel, no utterance queued) and resolves; when
\* enabled it cancels ongoing speech first and then queues exactly one utterance.
C31_SpeakOnlyWhenEnabled ==
  pureCall.op = "speak"
    => LET enabled == /\ pureCall.hasSynth
                      /\ "ttsEnabled" \in DOMAIN pureCall.stored
                      /\ pureCall.stored.ttsEnabled
           ops == pureCall.output.synthOps
       IN  /\ ~enabled => ops = <<>> /\ pureCall.output.promise = "resolved"
           /\ enabled => /\ Len(ops) = 2
                         /\ ops[1].op = "cancel"
                         /\ ops[2].op = "speak"
                         /\ ops[2].text = pureCall.text

C31_Witness ==
  /\ pureCall.op = "speak"
  /\ pureCall.hasSynth
  /\ pureCall.stored = [ttsEnabled |-> FALSE]
  /\ pureCall.output.synthOps = <<>>
  /\ pureCall.output.promise = "resolved"

====
